---- MODULE Spec2Model ----
(***************************************************************************)
(* A model of the ARM64 assembly emulator: the line decoder (parser.cpp),  *)
(* the program builder and the single-step execution engine                *)
(* (executor.cpp), the register file (registers.hpp), the 256-byte stack   *)
(* (stack.hpp) and the driving loop (executor_main.cpp).                   *)
(*                                                                         *)
(* Text is a sequence of one-character strings.  A 64-bit machine word is  *)
(* a sequence of 8 bytes, least significant first, so that uint64_t        *)
(* arithmetic keeps its width: every operation below is computed modulo    *)
(* 2^64 byte by byte.                                                      *)
(***************************************************************************)
EXTENDS Integers, Sequences, FiniteSets, TLC

(***************************************************************************)
(* Characters and strings                                                  *)
(***************************************************************************)
LowerAlpha == <<"a","b","c","d","e","f","g","h","i","j","k","l","m",
                "n","o","p","q","r","s","t","u","v","w","x","y","z">>
UpperAlpha == <<"A","B","C","D","E","F","G","H","I","J","K","L","M",
                "N","O","P","Q","R","S","T","U","V","W","X","Y","Z">>
DigitChars == <<"0","1","2","3","4","5","6","7","8","9">>

\* Position of c in the sequence cs, 0 when absent.
IndexIn(c, cs) ==
    IF \E i \in 1..Len(cs) : cs[i] = c
    THEN CHOOSE i \in 1..Len(cs) : cs[i] = c
    ELSE 0

\* std::isspace in the "C" locale: space, \t, \n, \v (the character 0x0B,
\* written as itself), \f, \r.
isspace(c) == c \in {" ", "\t", "\n", "", "\f", "\r"}

\* std::isdigit
isdigit(c) == IndexIn(c, DigitChars) # 0

\* std::isxdigit
isxdigit(c) ==
    \/ isdigit(c)
    \/ c \in {"a","b","c","d","e","f","A","B","C","D","E","F"}

\* std::toupper on one character
toupper(c) ==
    IF IndexIn(c, LowerAlpha) # 0 THEN UpperAlpha[IndexIn(c, LowerAlpha)] ELSE c

\* upperCopy: std::transform with toupper
upperCopy(s) == [i \in 1..Len(s) |-> toupper(s[i])]

\* s.substr(pos) with a 0-based position, as in the source
Substr(s, pos) == SubSeq(s, pos + 1, Len(s))

\* s.substr(pos, n) with a 0-based position
SubstrN(s, pos, n) ==
    SubSeq(s, pos + 1, IF pos + n > Len(s) THEN Len(s) ELSE pos + n)

\* trimCopy: erase leading and trailing whitespace
trimCopy(s) ==
    LET ns == {i \in 1..Len(s) : ~isspace(s[i])}
    IN  IF ns = {} THEN <<>>
        ELSE SubSeq(s, CHOOSE i \in ns : \A j \in ns : i <= j,
                       CHOOSE i \in ns : \A j \in ns : j <= i)

\* s.find(c): 0-based position of the first c, -1 for npos
Find(s, c) ==
    LET ps == {i \in 1..Len(s) : s[i] = c}
    IN  IF ps = {} THEN -1 ELSE (CHOOSE i \in ps : \A j \in ps : i <= j) - 1

\* s.find_first_of(set): 0-based position, -1 for npos
FindFirstOf(s, cs) ==
    LET ps == {i \in 1..Len(s) : s[i] \in cs}
    IN  IF ps = {} THEN -1 ELSE (CHOOSE i \in ps : \A j \in ps : i <= j) - 1

\* s.rfind(p, 0) == 0: s starts with p
StartsWith(s, p) == Len(s) >= Len(p) /\ SubSeq(s, 1, Len(p)) = p

(***************************************************************************)
(* 64-bit words: 8 bytes, least significant first                          *)
(***************************************************************************)
Byte == 0..255

Zero64 == <<0, 0, 0, 0, 0, 0, 0, 0>>
One64  == <<1, 0, 0, 0, 0, 0, 0, 0>>
Ones64 == <<255, 255, 255, 255, 255, 255, 255, 255>>

\* A small natural number (below 2^31) as a 64-bit word
U64(n) == <<n % 256, (n \div 256) % 256, (n \div 65536) % 256,
            (n \div 16777216) % 256, 0, 0, 0, 0>>

RECURSIVE AddC(_, _, _, _)
AddC(a, b, i, c) ==
    IF i > 8 THEN <<>>
    ELSE LET s == a[i] + b[i] + c
         IN  <<s % 256>> \o AddC(a, b, i + 1, s \div 256)

\* uint64_t a + b
Add64(a, b) == AddC(a, b, 1, 0)

Not64(a) == [i \in 1..8 |-> 255 - a[i]]

\* uint64_t -a
Neg64(a) == Add64(Not64(a), One64)

\* uint64_t a - b
Sub64(a, b) == Add64(a, Neg64(b))

RECURSIVE BitAnd(_, _)
BitAnd(x, y) ==
    IF x = 0 \/ y = 0 THEN 0
    ELSE (x % 2) * (y % 2) + 2 * BitAnd(x \div 2, y \div 2)

RECURSIVE BitXor(_, _)
BitXor(x, y) ==
    IF x = 0 /\ y = 0 THEN 0
    ELSE (((x % 2) + (y % 2)) % 2) + 2 * BitXor(x \div 2, y \div 2)

\* uint64_t a & b
And64(a, b) == [i \in 1..8 |-> BitAnd(a[i], b[i])]

\* uint64_t a ^ b
Xor64(a, b) == [i \in 1..8 |-> BitXor(a[i], b[i])]

\* Sum of the byte products that land in column k of a * b
ColSum(a, b, k) ==
    LET f[i \in 0..k] == IF i = 0 THEN 0 ELSE f[i - 1] + a[i] * b[k + 1 - i]
    IN  f[k]

RECURSIVE MulC(_, _, _, _)
MulC(a, b, k, c) ==
    IF k > 8 THEN <<>>
    ELSE LET s == ColSum(a, b, k) + c
         IN  <<s % 256>> \o MulC(a, b, k + 1, s \div 256)

\* uint64_t a * b (low 64 bits)
Mul64(a, b) == MulC(a, b, 1, 0)

RECURSIVE Pow2(_)
Pow2(n) == IF n = 0 THEN 1 ELSE 2 * Pow2(n - 1)

\* uint64_t a << n, for n in 0..63
Shl64(a, n) ==
    Mul64(a, [i \in 1..8 |-> IF i = (n \div 8) + 1 THEN Pow2(n % 8) ELSE 0])

\* static_cast<uint32_t>(a), widened back to 64 bits
U32(a) == [i \in 1..8 |-> IF i <= 4 THEN a[i] ELSE 0]

\* static_cast<uint8_t>(a), widened back to 64 bits
U8(a) == [i \in 1..8 |-> IF i = 1 THEN a[1] ELSE 0]

\* (a >> 63) & 1 and (a >> 31) & 1
Bit63(a) == a[8] >= 128
Bit31(a) == a[4] >= 128

\* Unsigned a < b: decided at the most significant differing byte
Ltu(a, b) ==
    \E i \in 1..8 : a[i] < b[i] /\ \A j \in (i + 1)..8 : a[j] = b[j]

\* Unsigned a >= b
Geu(a, b) == ~Ltu(a, b)

\* a & 63 of a word, as a number
Low6(a) == a[1] % 64

(***************************************************************************)
(* Number parsing: std::stoull, std::stoll, std::stoi                      *)
(***************************************************************************)
\* Value of a digit character in the given base, -1 when it is no digit
DigitVal(c, base) ==
    IF isdigit(c) THEN IndexIn(c, DigitChars) - 1
    ELSE IF base = 16 /\ IndexIn(toupper(c), <<"A","B","C","D","E","F">>) # 0
         THEN 9 + IndexIn(toupper(c), <<"A","B","C","D","E","F">>)
         ELSE -1

RECURSIVE MulAddC(_, _, _, _)
MulAddC(a, m, i, c) ==
    IF i > 8 THEN <<c>>
    ELSE LET s == a[i] * m + c
         IN  <<s % 256>> \o MulAddC(a, m, i + 1, s \div 256)

\* Consume the digits of s from position i (1-based): the accumulated
\* magnitude, whether it left 64 bits (checked digit by digit, as strtoull
\* does), and how many digits were read.
RECURSIVE Digits(_, _, _, _)
Digits(s, i, base, st) ==
    IF i > Len(s) \/ DigitVal(s[i], base) < 0 THEN st
    ELSE LET r == MulAddC(st.mag, base, 1, DigitVal(s[i], base))
         IN  IF r[9] # 0 \/ st.over
             THEN Digits(s, i + 1, base,
                         [mag |-> Zero64, over |-> TRUE, n |-> st.n + 1])
             ELSE Digits(s, i + 1, base,
                         [mag |-> SubSeq(r, 1, 8), over |-> FALSE,
                          n |-> st.n + 1])

\* strtoull/strtoll scanning: leading whitespace, an optional sign, for base
\* 16 an optional 0x/0X that is followed by a hex digit, then the digits.
Scan(s, base) ==
    LET ws == {i \in 1..Len(s) : ~isspace(s[i])}
        p0 == IF ws = {} THEN Len(s) + 1
              ELSE CHOOSE i \in ws : \A j \in ws : i <= j
        result(neg, d) ==
            [neg |-> neg, mag |-> d.mag, over |-> d.over, n |-> d.n]
        prefix(p1) ==
            IF /\ base = 16
               /\ p1 + 2 <= Len(s)
               /\ s[p1] = "0"
               /\ s[p1 + 1] \in {"x", "X"}
               /\ DigitVal(s[p1 + 2], 16) >= 0
            THEN p1 + 2 ELSE p1
        sign(p) == IF p <= Len(s) /\ s[p] \in {"-", "+"} THEN p + 1 ELSE p
    IN  result(p0 <= Len(s) /\ s[p0] = "-",
               Digits(s, prefix(sign(p0)), base,
                      [mag |-> Zero64, over |-> FALSE, n |-> 0]))

\* std::stoull(s, nullptr, base): invalid_argument without digits,
\* out_of_range past 2^64-1, a leading '-' negates modulo 2^64.
stoull(s, base) ==
    LET value(sc) ==
            IF sc.n = 0 THEN [st |-> "invalid_argument", val |-> Zero64]
            ELSE IF sc.over THEN [st |-> "out_of_range", val |-> Zero64]
            ELSE [st |-> "ok",
                  val |-> IF sc.neg THEN Neg64(sc.mag) ELSE sc.mag]
    IN  value(Scan(s, base))

\* 2^63 as a word
Min64 == <<0, 0, 0, 0, 0, 0, 0, 128>>

\* std::stoll(s, nullptr, base): the value as a two's-complement word;
\* out_of_range outside [-2^63, 2^63-1].
stoll(s, base) ==
    LET value(sc) ==
            IF sc.n = 0 THEN [st |-> "invalid_argument", val |-> Zero64]
            ELSE IF sc.over \/ (~sc.neg /\ Bit63(sc.mag))
                            \/ (sc.neg /\ Ltu(Min64, sc.mag))
                 THEN [st |-> "out_of_range", val |-> Zero64]
            ELSE [st |-> "ok",
                  val |-> IF sc.neg THEN Neg64(sc.mag) ELSE sc.mag]
    IN  value(Scan(s, base))

\* std::stoi(s): out_of_range when the value does not fit an int
stoi(s) ==
    LET value(sc) ==
            IF sc.n = 0 THEN [st |-> "invalid_argument", val |-> Zero64]
            ELSE IF sc.over \/ (\E i \in 5..8 : sc.mag[i] # 0)
                            \/ sc.mag[4] >= 128
                 THEN [st |-> "out_of_range", val |-> Zero64]
            ELSE [st |-> "ok", val |-> sc.mag]
    IN  value(Scan(s, 10))

(***************************************************************************)
(* parser.cpp: operand classification and line decoding                    *)
(***************************************************************************)
\* The parser's trim and upper are the executor's trimCopy and upperCopy
trim(s) == trimCopy(s)
upper(s) == upperCopy(s)

is_register_token(t) ==
    LET named(u) ==
            \/ u \in {<<"S","P">>, <<"X","Z","R">>, <<"W","Z","R">>}
            \/ /\ u[1] \in {"X", "W"}
               /\ Len(u) >= 2
               /\ \A i \in 2..Len(u) : isdigit(u[i])
    IN  t # <<>> /\ named(upper(t))

is_immediate_token(t) == t # <<>> /\ t[1] = "#"

is_memory_token(t) == t # <<>> /\ t[1] = "[" /\ t[Len(t)] = "]"

\* parse_immediate_value: "#<value>", decimal or 0x hex, through std::stoll
parse_immediate_value(t) ==
    IF \/ StartsWith(Substr(t, 1), <<"0","x">>)
       \/ StartsWith(Substr(t, 1), <<"0","X">>)
    THEN stoll(Substr(t, 1), 16)
    ELSE stoll(Substr(t, 1), 10)

\* parse_operand: err is the exception that escaped, "" when none did.
\* An empty token yields a value-initialised Operand, whose type is the
\* first enumerator, Register.
parse_operand(tok0) ==
    LET tok == trim(tok0)
        immediate(r) ==
            [type |-> "Immediate", raw |-> tok, imm |-> r.val,
             err |-> IF r.st = "ok" THEN "" ELSE r.st]
    IN  IF tok = <<>>
        THEN [type |-> "Register", raw |-> <<>>, imm |-> Zero64, err |-> ""]
        ELSE IF is_memory_token(tok)
        THEN [type |-> "Memory", raw |-> tok, imm |-> Zero64, err |-> ""]
        ELSE IF is_register_token(tok)
        THEN [type |-> "Register", raw |-> tok, imm |-> Zero64, err |-> ""]
        ELSE IF is_immediate_token(tok)
        THEN immediate(parse_immediate_value(tok))
        ELSE [type |-> "Label", raw |-> tok, imm |-> Zero64, err |-> ""]

\* A bracket counter that never leaves 0: every comma splits
BracketDepth_Flat(s) == [i \in 1..Len(s) |-> 0]

\* The bracket counter of parse_operands after each character of s
BracketDepth(s) ==
    LET d[i \in 0..Len(s)] ==
            IF i = 0 THEN 0
            ELSE LET p == d[i - 1]
                 IN  IF s[i] = "[" THEN p + 1
                     ELSE IF s[i] = "]" THEN (IF p - 1 > 0 THEN p - 1 ELSE 0)
                     ELSE p
    IN  [i \in 1..Len(s) |-> d[i]]

\* The j-th smallest element of a set of numbers
Nth(S, j) == CHOOSE x \in S : Cardinality({y \in S : y < x}) = j - 1

\* The pieces parse_operands cuts s into: split on the commas met at
\* bracket depth 0; every piece before such a comma is pushed (an empty
\* one too), the piece after the last comma only when it is not blank.
OperandTokens(s) ==
    LET depth  == BracketDepth(s)
        cuts   == {i \in 1..Len(s) : s[i] = "," /\ depth[i] = 0}
        k      == Cardinality(cuts)
        from(j) == IF j = 1 THEN 1 ELSE Nth(cuts, j - 1) + 1
        pieces == [j \in 1..k |-> SubSeq(s, from(j), Nth(cuts, j) - 1)]
        last   == SubSeq(s, from(k + 1), Len(s))
    IN  IF trim(last) # <<>> THEN Append(pieces, last) ELSE pieces

\* parse_operands: split on the commas met at bracket depth 0; every piece
\* before such a comma is pushed (an empty one too), the piece after the
\* last comma only when it is not blank.
parse_operands(s) ==
    LET each(toks) == [j \in 1..Len(toks) |-> parse_operand(toks[j])]
    IN  each(OperandTokens(s))

\* Operands without the bookkeeping field
StripErr(ops) ==
    [i \in 1..Len(ops) |->
        [type |-> ops[i].type, raw |-> ops[i].raw, imm |-> ops[i].imm]]

\* GenericHandler::parse: accepts anything
GenericHandler(ops) == ""

\* AddHandler::parse looking at the number of operands only
AddHandler_CountOnly(ops) ==
    IF Len(ops) # 3 THEN "ADD expects 3 operands" ELSE ""

\* AddHandler::parse: the message thrown, "" when the operands are accepted
AddHandler(ops) ==
    IF Len(ops) # 3 THEN "ADD expects 3 operands"
    ELSE IF ops[1].type # "Register" \/ ops[2].type # "Register"
         THEN "ADD first two operands must be registers"
    ELSE IF ops[3].type # "Register" /\ ops[3].type # "Immediate"
         THEN "ADD third operand must be register or immediate"
    ELSE ""

\* LdrHandler::parse
LdrHandler(ops) ==
    IF Len(ops) < 2 \/ Len(ops) > 2 THEN "LDR expects 2 operands"
    ELSE IF ops[1].type # "Register" THEN "LDR destination must be a register"
    ELSE IF ops[2].type # "Memory"
         THEN "LDR address must be a memory operand like [Xn{,#imm}]"
    ELSE ""

\* Parser::parse_line: kind "none" (std::nullopt), "inst" or "error" (an
\* exception escaped).  iss >> mnemonic reads up to the first isspace
\* character, std::getline(iss, rest) from there up to the first newline.
parse_line(line) ==
    LET s == trim(line)
        sp == FindFirstOf(s, {" ", "\t", "\n", "", "\f", "\r"})
        mnemonic == IF sp < 0 THEN s ELSE SubstrN(s, 0, sp)
        tail == IF sp < 0 THEN <<>> ELSE Substr(s, sp)
        nl == Find(tail, "\n")
        rest == trim(IF nl < 0 THEN tail ELSE SubstrN(tail, 0, nl))
        up == upper(mnemonic)
        herr(ops) ==
            IF up = <<"A","D","D">> THEN AddHandler(ops)
            ELSE IF up = <<"L","D","R">> THEN LdrHandler(ops)
            ELSE GenericHandler(ops)
        first(bad) == CHOOSE i \in bad : \A j \in bad : i <= j
        result(ops, bad) ==
            IF bad # {}
            THEN [kind |-> "error", mnem |-> up, operands |-> <<>>,
                  err |-> ops[first(bad)].err]
            ELSE IF herr(ops) # ""
            THEN [kind |-> "error", mnem |-> up, operands |-> <<>>,
                  err |-> herr(ops)]
            ELSE [kind |-> "inst", mnem |-> up, operands |-> StripErr(ops),
                  err |-> ""]
        decoded(ops) == result(ops, {i \in 1..Len(ops) : ops[i].err # ""})
        none == [kind |-> "none", mnem |-> <<>>, operands |-> <<>>, err |-> ""]
    IN  IF s = <<>> THEN none
        ELSE IF StartsWith(s, <<"/","/">>) \/ s[1] = ";" THEN none
        ELSE decoded(IF rest = <<>> THEN <<>> ELSE parse_operands(rest))

(***************************************************************************)
(* registers.hpp: the register file.  regs is a record with x (X0..X30),   *)
(* sp, pc and psr (the flags the executor reads and writes: N, Z, C, V).   *)
(***************************************************************************)
XZR_INDEX == 31

\* struct ProcessorState as registers.hpp declares it
ProcessorState == [N |-> FALSE, Z |-> FALSE]

\* The members C and V of ProcessorState, which executor.cpp assigns and
\* reads but this registers.hpp does not declare: two more flags, false
\* at the start like N and Z.
ProcessorStateCV == [C |-> FALSE, V |-> FALSE]

\* Registers::Registers()
NewRegisters ==
    [x   |-> [n \in 0..30 |-> Zero64],
     sp  |-> Zero64,
     pc  |-> Zero64,
     psr |-> ProcessorState @@ ProcessorStateCV]

\* readX returning 0 for an index above 30
readX_Lenient(regs, n) ==
    IF n = XZR_INDEX \/ n > 30 THEN [err |-> "", val |-> Zero64]
    ELSE [err |-> "", val |-> regs.x[n]]

\* Registers::readX: err is the exception thrown, "" when none is
readX(regs, n) ==
    IF n = XZR_INDEX THEN [err |-> "", val |-> Zero64]
    ELSE IF n > 30 THEN [err |-> "readX: invalid index", val |-> Zero64]
    ELSE [err |-> "", val |-> regs.x[n]]

\* writeX storing only the low 32 bits
writeX_Low32(regs, n, value) ==
    IF n = XZR_INDEX THEN [err |-> "", regs |-> regs]
    ELSE IF n > 30 THEN [err |-> "writeX: invalid index", regs |-> regs]
    ELSE [err |-> "", regs |-> [regs EXCEPT !.x[n] = U32(value)]]

\* Registers::writeX
writeX(regs, n, value) ==
    IF n = XZR_INDEX THEN [err |-> "", regs |-> regs]
    ELSE IF n > 30 THEN [err |-> "writeX: invalid index", regs |-> regs]
    ELSE [err |-> "", regs |-> [regs EXCEPT !.x[n] = value]]

\* Registers::readW: the low 32 bits of readX
readW(regs, n) ==
    LET r == readX(regs, n) IN [err |-> r.err, val |-> U32(r.val)]

\* writeW keeping the upper half of the register
writeW_KeepUpper(regs, n, value) ==
    IF n = XZR_INDEX THEN [err |-> "", regs |-> regs]
    ELSE IF n > 30 THEN [err |-> "writeW: invalid index", regs |-> regs]
    ELSE [err |-> "",
          regs |-> [regs EXCEPT !.x[n] =
                       [i \in 1..8 |-> IF i <= 4 THEN value[i] ELSE @[i]]]]

\* Registers::writeW: the 32-bit value, zero-extended
writeW(regs, n, value) ==
    IF n = XZR_INDEX THEN [err |-> "", regs |-> regs]
    ELSE IF n > 30 THEN [err |-> "writeW: invalid index", regs |-> regs]
    ELSE [err |-> "", regs |-> [regs EXCEPT !.x[n] = U32(value)]]

readSP(regs) == regs.sp
writeSP(regs, v) == [regs EXCEPT !.sp = v]
readPC(regs) == regs.pc
\* writePC that stores nothing
writePC_Ignored(regs, v) == regs

writePC(regs, v) == [regs EXCEPT !.pc = v]

(***************************************************************************)
(* stack.hpp: the stack.  stack is a record with base and mem (256 bytes). *)
(***************************************************************************)
stackSize == 256

\* Stack::Stack(baseAddress)
NewStack(baseAddress) ==
    [base |-> baseAddress, mem |-> [i \in 0..(stackSize - 1) |-> 0]]

\* The bytes std::mt19937 seeded with 0xC0FFEE gives through
\* std::uniform_int_distribution<int>(0, 255), in the order drawn.  The
\* distribution's algorithm is the library's (libstdc++ here).
RandomBytes ==
    <<146, 140, 208,  36, 237, 166,  23, 159,  68,   8, 245,  46,  87, 243,   2, 182,
      221, 201, 149,  39, 146, 249,  80,  94, 122, 104, 208, 182, 212,   1, 191,  64,
      251,  32,  56,  72, 166, 200, 252, 165, 210, 183,  63,  24,  86,  13, 177,  57,
      112, 103,  11, 151, 190, 220, 211, 124,  84, 121, 162,   5,  65, 232, 145, 247,
      146, 208,  98, 127,  93, 106,  98, 181,  22,  43, 141, 204, 100,  63,  95, 252,
       67,   1,  71, 119, 113, 189, 195, 101, 122, 147,  71, 202, 220, 173,  87, 138,
      191,  74, 124, 101, 252, 223,  63, 148,  48, 101, 125,   5, 215,  54, 146, 223,
      116,   5, 196, 228, 225,  74, 198,  25, 200, 151, 111,  68, 154,  31,  39,  35,
       70, 181, 123,  28,  96,  62, 232,  16,  32, 196, 147, 232, 124, 101, 178, 242,
       22, 160, 110,  19, 212,  18,  32, 225,  50, 106, 178, 123,  69,  23, 219,  90,
       82,   1,  95, 252, 255,   2, 197, 169,  66,   0, 228, 240, 162,  73, 205, 200,
       87, 170,  74, 220, 240, 102, 104, 125, 102, 129, 127,  50, 102, 121, 115,   0,
       27, 252, 137, 150, 125, 102, 212, 106, 157, 168, 110,  74, 214, 208, 160,   9,
      150, 236, 239, 139, 215, 124, 193, 194,  44, 192, 122, 166, 243, 136, 232, 117,
      196, 109,  17, 237, 118, 135, 138, 220,  73, 243,  12,   1, 175,  19, 171,  31,
      187,  12, 173, 200, 246, 209,  32,  58, 248, 235, 110,  64,  27, 243,   0,  48>>

\* Stack::fillRandom() with its default seed: every byte is overwritten
fillRandom(stack) ==
    [stack EXCEPT !.mem = [i \in 0..(stackSize - 1) |-> RandomBytes[i + 1]]]

\* A word below 2^16 as a number (its two low bytes)
Low16(a) == a[1] + 256 * a[2]

\* The word is below n (n below 2^16)
Below(a, n) == (\A i \in 3..8 : a[i] = 0) /\ Low16(a) < n

\* Stack::boundsCheck(offset, 1): offset + width > stackSize, computed in
\* size_t, so that offset 2^64-1 wraps to 0 and passes.
boundsCheck(offset) == ~Ltu(U64(stackSize), Add64(offset, One64))

\* The outcomes of indexing mem_ outside 0..255 (undefined behaviour): the
\* access lands on the object laid out before mem_ (the last byte of
\* base_), or a hardened build aborts the process.
UBOutcomes == {"adjacent", "abort"}

\* Stack::write8(offset, v): err "abort" when the process died
write8(stack, offset, v, ub) ==
    IF ~boundsCheck(offset)
    THEN [err |-> "stack write/read out of range", stack |-> stack]
    ELSE IF Below(offset, stackSize)
    THEN [err |-> "", stack |-> [stack EXCEPT !.mem[Low16(offset)] = v]]
    ELSE IF ub = "adjacent"
    THEN [err |-> "", stack |-> [stack EXCEPT !.base[8] = v]]
    ELSE [err |-> "abort", stack |-> stack]

\* Stack::read8(offset)
read8(stack, offset, ub) ==
    IF ~boundsCheck(offset)
    THEN [err |-> "stack write/read out of range", val |-> 0]
    ELSE IF Below(offset, stackSize)
    THEN [err |-> "", val |-> stack.mem[Low16(offset)]]
    ELSE IF ub = "adjacent"
    THEN [err |-> "", val |-> stack.base[8]]
    ELSE [err |-> "abort", val |-> 0]

(***************************************************************************)
(* executor.cpp: register and memory helpers                               *)
(***************************************************************************)
isWReg(tokU) == tokU # <<>> /\ tokU[1] = "W"

\* regIndex: 0..30, 31 for XZR/WZR, 32 for SP, 999 for no register, and -1
\* when std::stoi throws out_of_range.
regIndex(tok) ==
    LET u == upperCopy(trimCopy(tok))
        number(n) ==
            IF n.st # "ok" THEN -1
            ELSE IF Below(n.val, 31) THEN Low16(n.val)
            ELSE 999
    IN  IF u \in {<<"X","Z","R">>, <<"W","Z","R">>} THEN XZR_INDEX
        ELSE IF u = <<"S","P">> THEN XZR_INDEX + 1
        ELSE IF Len(u) >= 2 /\ u[1] \in {"X", "W"}
        THEN IF \E i \in 2..Len(u) : ~isdigit(u[i]) THEN 999
             ELSE number(stoi(Substr(u, 1)))
        ELSE 999

\* parseImm: std::stoull on the text after an optional '#'
parseImm(s0) ==
    LET s1 == trimCopy(s0)
        s  == IF s1 # <<>> /\ s1[1] = "#" THEN Substr(s1, 1) ELSE s1
    IN  IF StartsWith(s, <<"0","x">>) \/ StartsWith(s, <<"0","X">>)
        THEN stoull(s, 16)
        ELSE stoull(s, 10)

\* The index part of effectiveAddr (lines 107-144): err and idx_val
IndexValue(rest, regs) ==
    LET comma2   == Find(rest, ",")
        idxTok   == IF comma2 >= 0 THEN trimCopy(SubstrN(rest, 0, comma2))
                    ELSE rest
        shiftTok == IF comma2 >= 0
                    THEN upperCopy(trimCopy(Substr(rest, comma2 + 1)))
                    ELSE <<>>
        iu       == upperCopy(idxTok)
        hash     == Find(shiftTok, "#")
        immediate(r) ==
            [err |-> IF r.st = "ok" THEN "" ELSE r.st, val |-> r.val]
        value(r) ==
            IF r = XZR_INDEX THEN [err |-> "", val |-> Zero64]
            ELSE IF isWReg(iu) THEN readW(regs, r)
            ELSE readX(regs, r)
        shifted(rd, sh) ==
            IF sh.st # "ok" THEN [err |-> sh.st, val |-> Zero64]
            ELSE [err |-> "", val |-> Shl64(rd.val, Low6(sh.val))]
        register(r, sh) ==
            IF r = -1 THEN [err |-> "out_of_range", val |-> Zero64]
            ELSE IF r = 999
            THEN [err |-> "invalid index in memory operand", val |-> Zero64]
            ELSE IF value(r).err # "" THEN value(r)
            ELSE IF shiftTok = <<>> THEN value(r)
            ELSE IF ~StartsWith(shiftTok, <<"L","S","L">>)
            THEN [err |-> "unsupported index shift (only LSL #imm allowed)",
                  val |-> Zero64]
            ELSE IF hash < 0
            THEN [err |-> "missing shift immediate", val |-> Zero64]
            ELSE shifted(value(r), sh)
    IN  IF idxTok # <<>> /\ (idxTok[1] = "#" \/ isdigit(idxTok[1]))
        THEN immediate(parseImm(idxTok))
        ELSE register(regIndex(iu), parseImm(Substr(shiftTok, hash)))

\* effectiveAddr: err is the exception thrown, "" when none is
effectiveAddr(mem, regs) ==
    LET t      == mem.raw
        inside == trimCopy(SubSeq(t, 2, Len(t) - 1))
        comma  == Find(inside, ",")
        base   == IF comma >= 0 THEN trimCopy(SubstrN(inside, 0, comma))
                  ELSE inside
        rest   == IF comma >= 0 THEN trimCopy(Substr(inside, comma + 1))
                  ELSE <<>>
        baseValue(b) ==
            IF b = XZR_INDEX THEN [err |-> "", val |-> Zero64]
            ELSE IF b = XZR_INDEX + 1 THEN [err |-> "", val |-> readSP(regs)]
            ELSE IF b = -1 THEN [err |-> "out_of_range", val |-> Zero64]
            ELSE IF b # 999 THEN readX(regs, b)
            ELSE [err |-> "invalid base register in memory operand",
                  val |-> Zero64]
        sum(bv, iv) ==
            IF bv.err # "" THEN bv
            ELSE IF rest = <<>> THEN bv
            ELSE IF iv.err # "" THEN iv
            ELSE [err |-> "", val |-> Add64(bv.val, iv.val)]
        address(b, iv) == sum(baseValue(b), iv)
    IN  IF Len(t) < 2 \/ t[1] # "[" \/ t[Len(t)] # "]"
        THEN [err |-> "invalid memory operand", val |-> Zero64]
        ELSE address(regIndex(upperCopy(base)), IndexValue(rest, regs))

\* addr < st.base() || addr + width > st.base() + st.size(), in uint64_t
OutOfStack(st, addr, width) ==
    \/ Ltu(addr, st.base)
    \/ Ltu(Add64(st.base, U64(stackSize)), Add64(addr, U64(width)))

\* The write loop storing the most significant byte first
RECURSIVE WriteLoop_BigEndian(_, _, _, _, _, _)
WriteLoop_BigEndian(st, o, v, i, width, ub) ==
    LET next(w) ==
            IF w.err # "" THEN w
            ELSE WriteLoop_BigEndian(w.stack, o, v, i + 1, width, ub)
    IN  IF i >= width THEN [err |-> "", stack |-> st]
        ELSE next(write8(st, Add64(o, U64(i)), v[width - i], ub))

\* The loop "for i: st.write8(o + i, byte i of v)" from byte i on.  An
\* exception in the middle leaves the bytes already written in place.
RECURSIVE WriteLoop(_, _, _, _, _, _)
WriteLoop(st, o, v, i, width, ub) ==
    LET next(w) ==
            IF w.err # "" THEN w
            ELSE WriteLoop(w.stack, o, v, i + 1, width, ub)
    IN  IF i >= width THEN [err |-> "", stack |-> st]
        ELSE next(write8(st, Add64(o, U64(i)), v[i + 1], ub))

\* The read loop taking the first byte as the most significant
RECURSIVE ReadLoop_BigEndian(_, _, _, _, _)
ReadLoop_BigEndian(st, o, i, width, ub) ==
    LET join(r, tl) ==
            IF r.err # "" THEN [err |-> r.err, val |-> <<>>]
            ELSE IF tl.err # "" THEN tl
            ELSE [err |-> "", val |-> tl.val \o <<r.val>>]
    IN  IF i >= width THEN [err |-> "", val |-> <<>>]
        ELSE join(read8(st, Add64(o, U64(i)), ub),
                  ReadLoop_BigEndian(st, o, i + 1, width, ub))

\* The loop "for i: v |= st.read8(o + i) << (i*8)" from byte i on
RECURSIVE ReadLoop(_, _, _, _, _)
ReadLoop(st, o, i, width, ub) ==
    LET join(r, tl) ==
            IF r.err # "" THEN [err |-> r.err, val |-> <<>>]
            ELSE IF tl.err # "" THEN tl
            ELSE [err |-> "", val |-> <<r.val>> \o tl.val]
    IN  IF i >= width THEN [err |-> "", val |-> <<>>]
        ELSE join(read8(st, Add64(o, U64(i)), ub),
                  ReadLoop(st, o, i + 1, width, ub))

\* A value of fewer than 8 bytes, zero-extended to a word
ZeroExtend(bs) == [i \in 1..8 |-> IF i <= Len(bs) THEN bs[i] ELSE 0]

\* stackWrite64 with the bounds test left out, so that only Stack::write8
\* stops the loop
stackWrite64_Unchecked(st, addr, v, ub) ==
    WriteLoop(st, Sub64(addr, st.base), v, 0, 8, ub)

stackWrite64(st, addr, v, ub) ==
    IF OutOfStack(st, addr, 8)
    THEN [err |-> "STR out of stack bounds", stack |-> st]
    ELSE WriteLoop(st, Sub64(addr, st.base), v, 0, 8, ub)

stackRead64(st, addr, ub) ==
    LET value(r) == [err |-> r.err, val |-> ZeroExtend(r.val)]
    IN  IF OutOfStack(st, addr, 8)
        THEN [err |-> "LDR out of stack bounds", val |-> Zero64]
        ELSE value(ReadLoop(st, Sub64(addr, st.base), 0, 8, ub))

stackWrite8(st, addr, v, ub) ==
    IF OutOfStack(st, addr, 1)
    THEN [err |-> "STRB out of stack bounds", stack |-> st]
    ELSE WriteLoop(st, Sub64(addr, st.base), v, 0, 1, ub)

stackRead8(st, addr, ub) ==
    LET value(r) == [err |-> r.err, val |-> ZeroExtend(r.val)]
    IN  IF OutOfStack(st, addr, 1)
        THEN [err |-> "LDRB out of stack bounds", val |-> Zero64]
        ELSE value(ReadLoop(st, Sub64(addr, st.base), 0, 1, ub))

stackWrite32(st, addr, v, ub) ==
    IF OutOfStack(st, addr, 4)
    THEN [err |-> "STR (32) out of stack bounds", stack |-> st]
    ELSE WriteLoop(st, Sub64(addr, st.base), v, 0, 4, ub)

stackRead32(st, addr, ub) ==
    LET value(r) == [err |-> r.err, val |-> ZeroExtend(r.val)]
    IN  IF OutOfStack(st, addr, 4)
        THEN [err |-> "LDR (32) out of stack bounds", val |-> Zero64]
        ELSE value(ReadLoop(st, Sub64(addr, st.base), 0, 4, ub))

\* stackSubFlags64 that never sets V
stackSubFlags64_NoOverflow(a, b, res) ==
    [N |-> Bit63(res),
     Z |-> res = Zero64,
     C |-> Geu(a, b),
     V |-> FALSE]

\* stackSubFlags64: the flags of a - b = res at 64 bits
stackSubFlags64(a, b, res) ==
    [N |-> Bit63(res),
     Z |-> res = Zero64,
     C |-> Geu(a, b),
     V |-> (Bit63(a) # Bit63(b)) /\ (Bit63(res) # Bit63(a))]

\* stackSubFlags32 taking the signs from bit 63
stackSubFlags32_Bit63(a, b, res) ==
    [N |-> Bit63(res),
     Z |-> res = Zero64,
     C |-> Geu(a, b),
     V |-> (Bit63(a) # Bit63(b)) /\ (Bit63(res) # Bit63(a))]

\* stackSubFlags32: the flags of a - b = res at 32 bits
stackSubFlags32(a, b, res) ==
    [N |-> Bit31(res),
     Z |-> res = Zero64,
     C |-> Geu(a, b),
     V |-> (Bit31(a) # Bit31(b)) /\ (Bit31(res) # Bit31(a))]

(***************************************************************************)
(* executor.cpp: labels, branch targets and the program builder            *)
(***************************************************************************)
\* out[key] = value on an unordered_map held as a function
MapPut(m, key, value) ==
    [k \in (DOMAIN m) \cup {key} |-> IF k = key THEN value ELSE m[k]]

\* AsmProgram{}: no code, no labels, no addresses
EmptyProgram == [code |-> <<>>, labels |-> <<>>, addr2idx |-> <<>>]

\* The loop of collectLeadingLabels on the trimmed text s: the residue and
\* the label map with every leading "label:" recorded at next_instr_addr.
RECURSIVE LabelLoop(_, _, _)
LabelLoop(s, next_instr_addr, out) ==
    LET record(left, right) ==
            IF left = <<>> THEN [rest |-> s, labels |-> out]
            ELSE IF FindFirstOf(left, {" ", "\t"}) >= 0
            THEN [rest |-> s, labels |-> out]
            ELSE IF right = <<>>
            THEN [rest |-> right,
                  labels |-> MapPut(out, upperCopy(left), next_instr_addr)]
            ELSE LabelLoop(right, next_instr_addr,
                           MapPut(out, upperCopy(left), next_instr_addr))
        colon(pos) ==
            IF pos < 0 THEN [rest |-> s, labels |-> out]
            ELSE record(trimCopy(SubstrN(s, 0, pos)),
                        IF pos + 1 < Len(s) THEN trimCopy(Substr(s, pos + 1))
                        ELSE <<>>)
    IN  colon(Find(s, ":"))

collectLeadingLabels(line, next_instr_addr, out) ==
    LabelLoop(trimCopy(line), next_instr_addr, out)

\* tryParseHexAddrLabelish: ok and the address parsed
tryParseHexAddrLabelish(labelish) ==
    LET t0  == trimCopy(labelish)
        cut == FindFirstOf(t0, {" ", "<"})
        t   == trimCopy(IF cut >= 0 THEN SubstrN(t0, 0, cut) ELSE t0)
        parsed(r) == [ok |-> r.st = "ok", addr |-> r.val]
    IN  IF t = <<>> THEN [ok |-> FALSE, addr |-> Zero64]
        ELSE IF Len(t) > 2
                /\ (StartsWith(t, <<"0","x">>) \/ StartsWith(t, <<"0","X">>))
        THEN parsed(stoull(t, 16))
        ELSE IF \E i \in 1..Len(t) : ~isxdigit(t[i])
        THEN [ok |-> FALSE, addr |-> Zero64]
        ELSE parsed(stoull(t, 16))

\* resolveBranchTarget landing one instruction after the label
resolveBranchTarget_PastLabel(prog, op_text) ==
    LET lookup(h, key) ==
            IF h.ok THEN [err |-> "", addr |-> h.addr]
            ELSE IF key \in DOMAIN prog.labels
            THEN [err |-> "", addr |-> Add64(prog.labels[key], U64(4))]
            ELSE [err |-> "undefined label", addr |-> Zero64]
    IN  lookup(tryParseHexAddrLabelish(op_text),
               upperCopy(trimCopy(op_text)))

\* resolveBranchTarget: a hex address first, then the label map
resolveBranchTarget(prog, op_text) ==
    LET lookup(h, key) ==
            IF h.ok THEN [err |-> "", addr |-> h.addr]
            ELSE IF key \in DOMAIN prog.labels
            THEN [err |-> "", addr |-> prog.labels[key]]
            ELSE [err |-> "undefined label", addr |-> Zero64]
    IN  lookup(tryParseHexAddrLabelish(op_text),
               upperCopy(trimCopy(op_text)))

\* The address taken after the counter is incremented
nextAddr_AfterIncrement(instrIndex) == U64((instrIndex + 1) * 4)

\* next_addr = static_cast<uint64_t>(instrIndex) * 4ull
nextAddr(instrIndex) == U64(instrIndex * 4)

\* One iteration of the getline loop of buildFileProgram on one line, with
\* instrIndex instructions emitted so far: the program and counter after
\* it, err when the decoder threw (the exception leaves buildFileProgram).
buildLine(prog, instrIndex, line) ==
    LET next_addr == nextAddr(instrIndex)
        skip(labels) ==
            [err |-> "", prog |-> [prog EXCEPT !.labels = labels],
             instrIndex |-> instrIndex]
        emit(labels, decoded) ==
            IF decoded.kind = "error"
            THEN [err |-> decoded.err,
                  prog |-> [prog EXCEPT !.labels = labels],
                  instrIndex |-> instrIndex]
            ELSE IF decoded.kind = "none" THEN skip(labels)
            ELSE [err |-> "",
                  prog |-> [code |->
                               Append(prog.code,
                                      [addr |-> next_addr,
                                       instrIndex |-> instrIndex + 1,
                                       inst |-> [mnem |-> decoded.mnem,
                                                 operands |->
                                                     decoded.operands]]),
                            labels |-> labels,
                            addr2idx |-> MapPut(prog.addr2idx, next_addr,
                                                Len(prog.code))],
                  instrIndex |-> instrIndex + 1]
        text(labels, s, decoded) ==
            IF s = <<>> \/ StartsWith(s, <<"/","/">>) \/ s[1] = ";"
            THEN skip(labels)
            ELSE emit(labels, decoded)
        labelled(lab, decoded) == text(lab.labels, trimCopy(lab.rest), decoded)
    IN  labelled(collectLeadingLabels(line, next_addr, prog.labels),
                 parse_line(trimCopy(
                     collectLeadingLabels(line, next_addr, prog.labels).rest)))

(***************************************************************************)
(* executor.cpp: step.  Operand positions are 0-based as in the source.    *)
(***************************************************************************)
isImm(ops, i) == i < Len(ops) /\ ops[i + 1].type = "Immediate"
isReg(ops, i) == i < Len(ops) /\ ops[i + 1].type = "Register"
isMem(ops, i) == i < Len(ops) /\ ops[i + 1].type = "Memory"

\* regU: ops.at(i) throws past the end; callers test ok first
regU(ops, i) == IF i < Len(ops) THEN upperCopy(ops[i + 1].raw) ELSE <<>>

\* The readSrc64 lambda
readSrc64(ops, i, regs) ==
    LET u == regU(ops, i)
        read(r) ==
            IF i >= Len(ops) THEN [err |-> "out_of_range", val |-> Zero64]
            ELSE IF r = -1 THEN [err |-> "out_of_range", val |-> Zero64]
            ELSE IF r = XZR_INDEX THEN [err |-> "", val |-> Zero64]
            ELSE IF r = XZR_INDEX + 1 THEN [err |-> "", val |-> readSP(regs)]
            ELSE IF r = 999 THEN [err |-> "invalid register", val |-> Zero64]
            ELSE IF isWReg(u) THEN readW(regs, r)
            ELSE readX(regs, r)
    IN  read(regIndex(u))

\* The writeDest lambda
writeDest(ops, i, value, regs) ==
    LET u == regU(ops, i)
        write(r) ==
            IF i >= Len(ops) THEN [err |-> "out_of_range", regs |-> regs]
            ELSE IF r = -1 THEN [err |-> "out_of_range", regs |-> regs]
            ELSE IF r = XZR_INDEX THEN [err |-> "", regs |-> regs]
            ELSE IF r = XZR_INDEX + 1
            THEN [err |-> "", regs |-> writeSP(regs, value)]
            ELSE IF r = 999
            THEN [err |-> "invalid dest register", regs |-> regs]
            ELSE IF isWReg(u) THEN writeW(regs, r, U32(value))
            ELSE writeX(regs, r, value)
    IN  write(regIndex(u))

\* The readImm64 lambda
readImm64(ops, i) ==
    IF ~isImm(ops, i) THEN [err |-> "immediate expected", val |-> Zero64]
    ELSE [err |-> "", val |-> ops[i + 1].imm]

\* isImm(i) ? readImm64(i) : readSrc64(i)
ImmOrSrc(ops, i, regs) ==
    IF isImm(ops, i) THEN readImm64(ops, i) ELSE readSrc64(ops, i, regs)

\* What executing one instruction yields: the exception thrown ("" when
\* none), the registers and stack as the instruction left them (also when
\* it threw), the next PC and whether it halts (RET).
Outcome(err, regs, stack, nextPC, halt) ==
    [err |-> err, regs |-> regs, stack |-> stack, nextPC |-> nextPC,
     halt |-> halt]

MnMOV  == <<"M","O","V">>
MnADD  == <<"A","D","D">>
MnSUB  == <<"S","U","B">>
MnAND  == <<"A","N","D">>
MnEOR  == <<"E","O","R">>
MnMUL  == <<"M","U","L">>
MnCMP  == <<"C","M","P">>
MnLDR  == <<"L","D","R">>
MnLDRB == <<"L","D","R","B">>
MnSTR  == <<"S","T","R">>
MnSTRB == <<"S","T","R","B">>
MnB    == <<"B">>
MnBGT  == <<"B",".","G","T">>
MnBLE  == <<"B",".","L","E">>
MnRET  == <<"R","E","T">>
MnNOP  == <<"N","O","P">>

\* MOV (lines 326-330)
ExecMov(ops, regs, stack, nextPC) ==
    LET move(v, w) ==
            IF v.err # "" THEN Outcome(v.err, regs, stack, nextPC, FALSE)
            ELSE Outcome(w.err, w.regs, stack, nextPC, FALSE)
    IN  IF Len(ops) # 2
        THEN Outcome("MOV expects 2 operands", regs, stack, nextPC, FALSE)
        ELSE move(ImmOrSrc(ops, 1, regs),
                  writeDest(ops, 0, ImmOrSrc(ops, 1, regs).val, regs))

\* The result of ADD/SUB/AND/EOR/MUL (lines 336-341)
ArithResult(up, a, b) ==
    IF up = MnADD THEN Add64(a, b)
    ELSE IF up = MnSUB THEN Sub64(a, b)
    ELSE IF up = MnAND THEN And64(a, b)
    ELSE IF up = MnEOR THEN Xor64(a, b)
    ELSE Mul64(a, b)

\* ADD, SUB, AND, EOR, MUL in a flag-setting form
ExecArith_SetsFlags(up, ops, regs, stack, nextPC) ==
    LET compute(a, b, w) ==
            IF a.err # "" THEN Outcome(a.err, regs, stack, nextPC, FALSE)
            ELSE IF b.err # "" THEN Outcome(b.err, regs, stack, nextPC, FALSE)
            ELSE Outcome(w.err,
                         [w.regs EXCEPT
                            !.psr = stackSubFlags64(a.val, b.val,
                                        ArithResult(up, a.val, b.val))],
                         stack, nextPC, FALSE)
    IN  IF Len(ops) # 3
        THEN Outcome("expects 3 operands", regs, stack, nextPC, FALSE)
        ELSE compute(readSrc64(ops, 1, regs), ImmOrSrc(ops, 2, regs),
                     writeDest(ops, 0,
                               ArithResult(up, readSrc64(ops, 1, regs).val,
                                           ImmOrSrc(ops, 2, regs).val),
                               regs))

\* ADD, SUB, AND, EOR, MUL (lines 331-343)
ExecArith(up, ops, regs, stack, nextPC) ==
    LET compute(a, b, w) ==
            IF a.err # "" THEN Outcome(a.err, regs, stack, nextPC, FALSE)
            ELSE IF b.err # "" THEN Outcome(b.err, regs, stack, nextPC, FALSE)
            ELSE Outcome(w.err, w.regs, stack, nextPC, FALSE)
    IN  IF Len(ops) # 3
        THEN Outcome("expects 3 operands", regs, stack, nextPC, FALSE)
        ELSE compute(readSrc64(ops, 1, regs), ImmOrSrc(ops, 2, regs),
                     writeDest(ops, 0,
                               ArithResult(up, readSrc64(ops, 1, regs).val,
                                           ImmOrSrc(ops, 2, regs).val),
                               regs))

\* The flags CMP computes from the operand values (lines 351-359)
CmpFlags(rnU, a, b) ==
    LET sub32(aa, bb) == stackSubFlags32(aa, bb, U32(Sub64(aa, bb)))
    IN  IF isWReg(rnU) THEN sub32(U32(a), U32(b))
        ELSE stackSubFlags64(a, b, Sub64(a, b))

\* CMP as a subtraction that also writes Rn
ExecCmp_WritesDest(ops, regs, stack, nextPC) ==
    LET compare(a, b, w) ==
            IF a.err # "" THEN Outcome(a.err, regs, stack, nextPC, FALSE)
            ELSE IF b.err # "" THEN Outcome(b.err, regs, stack, nextPC, FALSE)
            ELSE Outcome("",
                         [w.regs EXCEPT
                            !.psr = CmpFlags(regU(ops, 0), a.val, b.val)],
                         stack, nextPC, FALSE)
    IN  IF Len(ops) # 2 \/ ~isReg(ops, 0)
        THEN Outcome("CMP expects Rn, (Rm|#imm)", regs, stack, nextPC, FALSE)
        ELSE compare(readSrc64(ops, 0, regs), ImmOrSrc(ops, 1, regs),
                     writeDest(ops, 0,
                               Sub64(readSrc64(ops, 0, regs).val,
                                     ImmOrSrc(ops, 1, regs).val),
                               regs))

\* CMP (lines 344-360)
ExecCmp(ops, regs, stack, nextPC) ==
    LET compare(a, b) ==
            IF a.err # "" THEN Outcome(a.err, regs, stack, nextPC, FALSE)
            ELSE IF b.err # "" THEN Outcome(b.err, regs, stack, nextPC, FALSE)
            ELSE Outcome("",
                         [regs EXCEPT
                            !.psr = CmpFlags(regU(ops, 0), a.val, b.val)],
                         stack, nextPC, FALSE)
    IN  IF Len(ops) # 2 \/ ~isReg(ops, 0)
        THEN Outcome("CMP expects Rn, (Rm|#imm)", regs, stack, nextPC, FALSE)
        ELSE compare(readSrc64(ops, 0, regs), ImmOrSrc(ops, 1, regs))

\* LDR, LDRB once the address is computed (lines 367-381): read, then
\* write the destination
LoadFrom(up, ops, regs, stack, nextPC, ub, ea) ==
    LET loaded(rd, w) ==
            IF rd.err # "" THEN Outcome(rd.err, regs, stack, nextPC, FALSE)
            ELSE Outcome(w.err, w.regs, stack, nextPC, FALSE)
        read == IF up = MnLDRB THEN stackRead8(stack, ea.val, ub)
                ELSE IF isWReg(regU(ops, 0))
                THEN stackRead32(stack, ea.val, ub)
                ELSE stackRead64(stack, ea.val, ub)
    IN  IF ea.err # "" THEN Outcome(ea.err, regs, stack, nextPC, FALSE)
        ELSE loaded(read, writeDest(ops, 0, read.val, regs))

\* LDR, LDRB (lines 361-382)
ExecLoad(up, ops, regs, stack, nextPC, ub) ==
    IF Len(ops) # 2 \/ ~isReg(ops, 0) \/ ~isMem(ops, 1)
    THEN Outcome("expects Rt, [base{,#off}]", regs, stack, nextPC, FALSE)
    ELSE LoadFrom(up, ops, regs, stack, nextPC, ub,
                  effectiveAddr(ops[2], regs))

\* STR, STRB (lines 383-402)
ExecStore(up, ops, regs, stack, nextPC, ub) ==
    LET done(wr) == Outcome(wr.err, regs, wr.stack, nextPC, FALSE)
        store(ea, v) ==
            IF ea.err # "" THEN Outcome(ea.err, regs, stack, nextPC, FALSE)
            ELSE IF v.err # "" THEN Outcome(v.err, regs, stack, nextPC, FALSE)
            ELSE IF up = MnSTRB
            THEN done(stackWrite8(stack, ea.val, U8(v.val), ub))
            ELSE IF isWReg(regU(ops, 0))
            THEN done(stackWrite32(stack, ea.val, U32(v.val), ub))
            ELSE done(stackWrite64(stack, ea.val, v.val, ub))
    IN  IF Len(ops) # 2 \/ ~isReg(ops, 0) \/ ~isMem(ops, 1)
        THEN Outcome("expects Rt, [base{,#off}]", regs, stack, nextPC, FALSE)
        ELSE store(effectiveAddr(ops[2], regs), readSrc64(ops, 0, regs))

\* B (lines 403-407)
ExecB(prog, ops, regs, stack, nextPC) ==
    LET branch(t) ==
            IF t.err # "" THEN Outcome(t.err, regs, stack, nextPC, FALSE)
            ELSE Outcome("", regs, stack, t.addr, FALSE)
    IN  IF Len(ops) # 1 \/ ops[1].type # "Label"
        THEN Outcome("B expects a single label/address operand",
                     regs, stack, nextPC, FALSE)
        ELSE branch(resolveBranchTarget(prog, ops[1].raw))

\* The branch condition with B.LE taken on Z alone
take_ZeroOnly(up, ps) ==
    IF up = MnBGT THEN (~ps.Z /\ (ps.N = ps.V)) ELSE ps.Z

\* The condition of B.GT / B.LE on the flags (lines 412-413)
take(up, ps) ==
    IF up = MnBGT THEN (~ps.Z /\ (ps.N = ps.V)) ELSE (ps.Z \/ (ps.N # ps.V))

\* B.GT, B.LE resolving the operand before the condition is looked at
ExecBcond_ResolveFirst(prog, up, ops, regs, stack, nextPC) ==
    LET branch(t) ==
            IF t.err # "" THEN Outcome(t.err, regs, stack, nextPC, FALSE)
            ELSE IF ~take(up, regs.psr)
            THEN Outcome("", regs, stack, nextPC, FALSE)
            ELSE Outcome("", regs, stack, t.addr, FALSE)
    IN  IF Len(ops) # 1 \/ ops[1].type # "Label"
        THEN Outcome("expects a single label/address operand",
                     regs, stack, nextPC, FALSE)
        ELSE branch(resolveBranchTarget(prog, ops[1].raw))

\* B.GT, B.LE (lines 408-415)
ExecBcond(prog, up, ops, regs, stack, nextPC) ==
    LET branch(t) ==
            IF t.err # "" THEN Outcome(t.err, regs, stack, nextPC, FALSE)
            ELSE Outcome("", regs, stack, t.addr, FALSE)
    IN  IF Len(ops) # 1 \/ ops[1].type # "Label"
        THEN Outcome("expects a single label/address operand",
                     regs, stack, nextPC, FALSE)
        ELSE IF ~take(up, regs.psr)
        THEN Outcome("", regs, stack, nextPC, FALSE)
        ELSE branch(resolveBranchTarget(prog, ops[1].raw))

\* The fallback throwing for an unimplemented mnemonic
ExecFallback_Throws(regs, stack, nextPC) ==
    Outcome("unimplemented instruction", regs, stack, nextPC, FALSE)

\* Any other mnemonic: nothing is done (lines 419-422)
ExecFallback(regs, stack, nextPC) ==
    Outcome("", regs, stack, nextPC, FALSE)

\* RET continuing with the next instruction
ExecRet_Continue(regs, stack, nextPC) ==
    Outcome("", regs, stack, nextPC, FALSE)

\* RET: return false at once (lines 416-418)
ExecRet(regs, stack, nextPC) == Outcome("", regs, stack, nextPC, TRUE)

\* The if/else chain on the mnemonic (lines 325-422)
Execute(prog, inst, regs, stack, nextPC, ub) ==
    LET up  == upperCopy(inst.mnem)
        ops == inst.operands
    IN  IF up = MnNOP THEN Outcome("", regs, stack, nextPC, FALSE)
        ELSE IF up = MnMOV THEN ExecMov(ops, regs, stack, nextPC)
        ELSE IF up \in {MnADD, MnSUB, MnAND, MnEOR, MnMUL}
        THEN ExecArith(up, ops, regs, stack, nextPC)
        ELSE IF up = MnCMP THEN ExecCmp(ops, regs, stack, nextPC)
        ELSE IF up \in {MnLDR, MnLDRB}
        THEN ExecLoad(up, ops, regs, stack, nextPC, ub)
        ELSE IF up \in {MnSTR, MnSTRB}
        THEN ExecStore(up, ops, regs, stack, nextPC, ub)
        ELSE IF up = MnB THEN ExecB(prog, ops, regs, stack, nextPC)
        ELSE IF up \in {MnBGT, MnBLE}
        THEN ExecBcond(prog, up, ops, regs, stack, nextPC)
        ELSE IF up = MnRET THEN ExecRet(regs, stack, nextPC)
        ELSE ExecFallback(regs, stack, nextPC)

\* The end address taken one instruction too far
endAddr_OnePast(prog) == U64(Len(prog.code) * 4 + 4)

\* prog.code.size() * 4
endAddr(prog) == U64(Len(prog.code) * 4)

\* step(prog, regs, stack, pc): ret is "true" or "false" (the value
\* returned), "throw" (an exception left step, err names it) or "abort"
\* (the process died in undefined behaviour); regs, stack and pc are the
\* caller's objects as the call left them.
step(prog, regs, stack, pc, ub) ==
    LET same(ret, err) ==
            [ret |-> ret, err |-> err, regs |-> regs, stack |-> stack,
             pc |-> pc]
        commit(o) ==
            IF o.err = "abort"
            THEN [ret |-> "abort", err |-> o.err, regs |-> o.regs,
                  stack |-> o.stack, pc |-> pc]
            ELSE IF o.err # ""
            THEN [ret |-> "throw", err |-> o.err, regs |-> o.regs,
                  stack |-> o.stack, pc |-> pc]
            ELSE IF o.halt
            THEN [ret |-> "false", err |-> "", regs |-> o.regs,
                  stack |-> o.stack, pc |-> pc]
            ELSE [ret |-> IF o.nextPC # endAddr(prog) THEN "true"
                          ELSE "false",
                  err |-> "",
                  regs |-> writePC(o.regs, o.nextPC),
                  stack |-> o.stack,
                  pc |-> o.nextPC]
    IN  IF Len(prog.code) = 0 THEN same("false", "")
        ELSE IF pc = endAddr(prog) THEN same("false", "")
        ELSE IF pc \notin DOMAIN prog.addr2idx
        THEN same("throw", "PC points to unknown address")
        ELSE commit(Execute(prog, prog.code[prog.addr2idx[pc] + 1].inst,
                            regs, stack, Add64(pc, U64(4)), ub))

(***************************************************************************)
(* The run of executor_main.cpp: build the program from the source lines,  *)
(* set up the registers and the stack, then loop on step.                  *)
(***************************************************************************)
VARIABLES
    src,        \* the lines of the input file
    caller,     \* who calls step: "main" (executor_main.cpp) or "direct";
                \* "regfile" calls the accessors of Registers only
    phase,      \* where the caller is: build, run, call, or how it ended
    src_line,   \* buildFileProgram: lines read so far
    instrIndex, \* buildFileProgram: instructions emitted so far
    prog,       \* the AsmProgram
    regs,       \* the Registers object
    stack,      \* the Stack object
    pc,         \* the caller's pc, passed to step by reference
    steps,      \* main's step counter
    ret,        \* what the last call of step did: none, true, false, throw, abort
    err,        \* the exception of the last call of step or of the build
    prev,       \* regs, stack and pc as they were before the last call of
                \* step, and the pc of the call before that one
    access      \* the last call of an accessor of Registers made by a
                \* caller of the Register File alone, and the one before

vars == <<src, caller, phase, src_line, instrIndex, prog, regs, stack, pc,
          steps, ret, err, prev, access>>

\* main's safety guard for accidental infinite loops
kMaxSteps == 100000

\* The test of main's guard with an off-by-one ceiling
StepLimitReached_OneMore(n) == n > kMaxSteps + 1

\* if (++steps > kMaxSteps), n being the incremented count
StepLimitReached(n) == n > kMaxSteps

\* The longest run of calls of step that is explored for generated files
StepBound == 6

\* The longest generated source file
MaxLines == 3

\* last is <<>> when no call came before
Snapshot(r, s, p, last) == [regs |-> r, stack |-> s, pc |-> p, last |-> last]

(***************************************************************************)
(* The input files explored.  Each is a sequence of lines; the families    *)
(* below are built from text pieces so that every operand form, address    *)
(* and value of interest occurs.                                           *)
(***************************************************************************)
\* Lines of the generated files: blank, comments, labels alone and before
\* an instruction, in several letter cases, and branches to them.
GenLines ==
    {<<>>,
     <<";"," ","c">>,
     <<"t","o","p",":">>,
     <<"T","o","p",":"," ","A","D","D"," ","X","0",","," ","X","0",","," ","#","1">>,
     <<"B"," ","t","O","p">>,
     <<"a","b","c",":"," ","N","O","P">>,
     <<"b"," ","A","B","C">>,
     <<"/","/","n","o","t","e",":"," ","x">>}

\* All sequences over S of length at most n
RECURSIVE SeqsUpTo(_, _)
SeqsUpTo(S, n) ==
    IF n = 0 THEN {<<>>}
    ELSE LET shorter == SeqsUpTo(S, n - 1)
         IN  shorter \cup {Append(q, x) : q \in shorter, x \in S}

GenSources == SeqsUpTo(GenLines, MaxLines)

\* Loads and stores of every width at offsets on both sides of the bounds
MemOps ==
    {<<"L","D","R"," ","X","6",","," ">>,
     <<"L","D","R"," ","W","6",","," ">>,
     <<"L","D","R","B"," ","W","6",","," ">>,
     <<"L","D","R","B"," ","X","6",","," ">>,
     <<"S","T","R"," ","X","5",","," ">>,
     <<"S","T","R"," ","W","5",","," ">>,
     <<"S","T","R","B"," ","W","5",","," ">>}

MemOffsets ==
    {<<"0">>,
     <<"8">>,
     <<"2","4","8">>,
     <<"2","4","9">>,
     <<"2","5","2">>,
     <<"2","5","3">>,
     <<"2","5","5">>,
     <<"2","5","6">>,
     <<"0","x","1","0","0">>,
     <<"-","1">>,
     <<"-","4">>,
     <<"-","8">>}

MemSources ==
    {<<<<"M","O","V"," ","X","5",","," ","#","0","x","1","1","2","2","3","3","4","4","5","5","6","6","7","7","8","8">>,
       op \o <<"[","S","P",","," ","#">> \o off \o <<"]">>,
       <<"L","D","R","B"," ","W","7",","," ","[","S","P",","," ","#","1","]">>>> :
        op \in MemOps, off \in MemOffsets}

\* A store followed by a load of the same operand
RoundTripValues ==
    {<<"0">>,
     <<"1">>,
     <<"-","1">>,
     <<"0","x","1","1","2","2","3","3","4","4","5","5","6","6","7","7","8","8">>,
     <<"-","9","2","2","3","3","7","2","0","3","6","8","5","4","7","7","5","8","0","8">>,
     <<"0","x","7","f","f","f","f","f","f","f","f","f","f","f","f","f","f","f">>,
     <<"0","x","f","e","d","c","b","a","9","8">>}

RoundTripOperands ==
    {<<"[","S","P","]">>,
     <<"[","s","p",","," ","#","8","]">>,
     <<"[","S","P",","," ","#","2","4","8","]">>,
     <<"[","X","1","]">>,
     <<"[","X","1",","," ","W","1",","," ","L","S","L"," ","#","2","]">>,
     <<"[","X","Z","R",","," ","0","x","f","8","]">>}

RoundTripSources ==
    {<<<<"M","O","V"," ","X","5",","," ","#">> \o v,
       <<"M","O","V"," ","X","1",","," ","#","4","8">>,
       rs[1] \o m,
       rs[2] \o m>> :
        v \in RoundTripValues, m \in RoundTripOperands,
        rs \in {<<<<"S","T","R"," ","X","5",","," ">>, <<"L","D","R"," ","X","6",","," ">>>>,
                <<<<"s","t","r"," ","w","5",","," ">>, <<"l","d","r"," ","w","6",","," ">>>>}}

\* A comparison of two values followed by a conditional branch
CmpValues ==
    {<<"0">>,
     <<"1">>,
     <<"3">>,
     <<"5">>,
     <<"-","1">>,
     <<"0","x","7","f","f","f","f","f","f","f","f","f","f","f","f","f","f","f">>,
     <<"-","9","2","2","3","3","7","2","0","3","6","8","5","4","7","7","5","8","0","8">>,
     <<"0","x","8","0","0","0","0","0","0","0">>}

CmpSources ==
    {<<<<"M","O","V"," ","X","0",","," ","#">> \o a,
       <<"M","O","V"," ","X","1",","," ","#">> \o b,
       IF c = 4 THEN <<"c","m","p"," ","w","0",","," ","#">> \o b
       ELSE IF c = 3 THEN <<"C","M","P"," ","X","0",","," ","#">> \o b
       ELSE IF c = 2 THEN <<"C","M","P"," ","W","0",","," ","W","1">>
       ELSE <<"C","M","P"," ","X","0",","," ","X","1">>,
       br,
       <<"N","O","P">>,
       <<"T",":"," ","N","O","P">>>> :
        a \in CmpValues, b \in CmpValues, c \in 1..4,
        br \in {<<"B",".","G","T"," ","T">>,
                <<"b",".","l","e"," ","t">>}}

\* Instructions that make step throw, run after registers, flags and the
\* stack have been given values
ErrLines ==
    {<<"M","O","V"," ","X","1">>,
     <<"M","O","V"," ","X","9","9",","," ","#","1">>,
     <<"M","O","V"," ","X","1",","," ","f","o","o">>,
     <<"M","O","V"," ","X","1",","," ","[","S","P","]">>,
     <<"M","O","V"," ","X","9","9","9","9","9","9","9","9","9","9","9",","," ","#","1">>,
     <<"S","U","B"," ","X","1",","," ","X","0">>,
     <<"S","U","B"," ","X","1",","," ","f","o","o",","," ","X","0">>,
     <<"S","U","B"," ","X","1",","," ","X","0",","," ","f","o","o">>,
     <<"M","U","L"," ","W","3","1",","," ","W","0",","," ","W","0">>,
     <<"C","M","P"," ","#","1",","," ","X","0">>,
     <<"C","M","P"," ","X","0">>,
     <<"C","M","P"," ","X","0",","," ","f","o","o">>,
     <<"L","D","R","B"," ","W","1",","," ","[","f","o","o","]">>,
     <<"L","D","R","B"," ","W","1",","," ","[","S","P",","," ","X","4","0","]">>,
     <<"L","D","R","B"," ","W","1",","," ","[","S","P",","," ","X","0",","," ","A","S","R"," ","#","2","]">>,
     <<"L","D","R","B"," ","W","1",","," ","[","S","P",","," ","X","0",","," ","L","S","L"," ","2","]">>,
     <<"L","D","R","B"," ","X","9","9",","," ","[","S","P","]">>,
     <<"L","D","R","B"," ","W","1",","," ","[","S","P",","," ","#","]">>,
     <<"L","D","R","B"," ","W","1",","," ","[","X","0",","," ","S","P","]">>,
     <<"L","D","R","B"," ","W","1",","," ","S","P">>,
     <<"L","D","R","B"," ","[","S","P","]",","," ","W","1">>,
     <<"S","T","R"," ","X","0",","," ","[","S","P",","," ","#","2","4","8","]">>,
     <<"S","T","R"," ","W","0",","," ","[","S","P",","," ","#","-","9","]">>,
     <<"S","T","R"," ","f","o","o",","," ","[","S","P","]">>,
     <<"S","T","R","B"," ","W","0",","," ","W","1">>,
     <<"S","T","R"," ","X","9","9",","," ","[","S","P","]">>,
     <<"B">>,
     <<"B"," ","X","1">>,
     <<"B"," ","n","o","l","a","b","e","l">>,
     <<"B"," ","0","x","Z","Z">>,
     <<"B"," ","0","x","1","0","0">>,
     <<"B"," ","t","o","p",","," ","t","o","p">>,
     <<"B",".","G","T"," ","n","o","l","a","b","e","l">>,
     <<"B",".","L","E"," ","n","o","l","a","b","e","l">>,
     <<"b",".","g","t"," ","#","1">>,
     <<"A","D","D"," ","X","0",","," ","X","0",","," ","X","3","1">>,
     <<"C","M","P"," ","X","3","1",","," ","#","0">>,
     <<"C","M","P"," ","X","0",","," ","W","9","9">>,
     <<"M","O","V"," ","X","0",","," ","X","3","1">>,
     <<"L","D","R"," ","W","3","1",","," ","[","S","P","]">>,
     <<"S","T","R","B"," ","W","9","9",","," ","[","S","P","]">>,
     <<"E","O","R"," ","W","0",","," ","X","3","2",","," ","X","0">>}

ErrSources ==
    {<<<<"M","O","V"," ","X","0",","," ","#","7">>,
       <<"C","M","P"," ","X","0",","," ","#","3">>,
       <<"S","T","R","B"," ","W","0",","," ","[","S","P",","," ","#","1","]">>,
       <<"t","o","p",":"," ","M","O","V"," ","S","P",","," ","X","0">>,
       bad,
       <<"N","O","P">>>> : bad \in ErrLines}

\* Instructions with a W register as destination
WDestLines ==
    {<<"M","O","V"," ","W","3",","," ","X","4">>,
     <<"m","o","v"," ","w","3",","," ","#","-","1">>,
     <<"A","D","D"," ","W","3",","," ","X","4",","," ","X","4">>,
     <<"S","U","B"," ","W","3",","," ","X","Z","R",","," ","X","4">>,
     <<"A","N","D"," ","W","3",","," ","X","3",","," ","X","3">>,
     <<"E","O","R"," ","W","3",","," ","X","3",","," ","X","Z","R">>,
     <<"M","U","L"," ","W","3",","," ","X","3",","," ","X","3">>,
     <<"L","D","R"," ","W","3",","," ","[","S","P","]">>,
     <<"L","D","R","B"," ","W","3",","," ","[","S","P","]">>,
     <<"l","d","r","b"," ","w","3",","," ","[","s","p",","," ","#","7","]">>}

\* Programs that fill X3 and a stack word before writing W3
WDestSources ==
    {<<<<"M","O","V"," ","X","3",","," ","#","-","1">>,
       <<"M","O","V"," ","X","4",","," ","#","0","x","1","f","f","f","f","f","f","f","f">>,
       <<"S","T","R"," ","X","3",","," ","[","S","P","]">>,
       op>> : op \in WDestLines}

\* Instructions whose mnemonic the engine does not implement
UnknownLines ==
    {<<"F","O","O">>,
     <<"f","o","o"," ","x","9","9",","," ","[","b","a","r">>,
     <<"L","S","L"," ","X","0",","," ","X","0",","," ","#","2">>,
     <<"A","D","D","S"," ","X","0",","," ","X","0",","," ","#","1">>,
     <<"B",".","E","Q"," ","t","o","p">>,
     <<"M","O","V","Z"," ","S","P",","," ","#","0">>,
     <<"S","T","P"," ","X","0",","," ","X","1",","," ","[","S","P",","," ","#","3","0","0","]">>,
     <<"B","L"," ","n","o","l","a","b","e","l">>,
     <<"C","B","Z"," ","X","0",","," ","0","x","Z","Z">>,
     <<"n","o","p","e"," ","#","1",","," ","#","2",","," ","#","3",","," ","#","4">>}

\* Programs that set a register, the flags and a stack byte before
\* running one of them
UnknownSources ==
    {<<<<"M","O","V"," ","X","0",","," ","#","7">>,
       <<"C","M","P"," ","X","0",","," ","#","3">>,
       <<"S","T","R","B"," ","W","0",","," ","[","S","P",","," ","#","1","]">>,
       unk,
       <<"t","o","p",":"," ","N","O","P">>>> : unk \in UnknownLines}

\* Memory operands of every form: base SP, XZR/WZR, Xn, Wn; no offset, an
\* immediate with or without '#', decimal or hex, negative; an X or W index
\* register, XZR/WZR, with and without LSL; names that are no register
AddrOperands ==
    {<<"[","S","P","]">>,
     <<"[","s","p",","," ","#","8","]">>,
     <<"[","S","P",","," ","1","6","]">>,
     <<"[","S","P",","," ","0","x","2","0","]">>,
     <<"[","S","P",","," ","#","0","x","2","8","]">>,
     <<"[","S","P",","," ","#","8",","," ","L","S","L"," ","#","2","]">>,
     <<"[","X","Z","R",","," ","#","0","x","f","8","]">>,
     <<"[","w","z","r",","," ","6","4","]">>,
     <<"[","X","1","]">>,
     <<"["," ","x","1"," ",","," ","#","-","8"," ","]">>,
     <<"[","W","3","]">>,
     <<"[","X","3",","," ","#","-","0","x","1","0","0","0","0","0","0","0","0","]">>,
     <<"[","X","3",","," ","#","-","4","2","9","4","9","6","7","2","9","6","]">>,
     <<"[","X","1",","," ","X","2","]">>,
     <<"[","X","1",","," ","W","2","]">>,
     <<"[","X","1",","," ","w","2",","," ","l","s","l"," ","#","2","]">>,
     <<"[","X","1",","," ","X","1",","," ","L","S","L"," ","#","1","]">>,
     <<"[","X","1",","," ","X","Z","R",","," ","L","S","L"," ","#","3","]">>,
     <<"[","X","1",","," ","W","Z","R","]">>,
     <<"[","X","1",","," ","W","2",","," ","L","S","L"," ","#","6","3","]">>,
     <<"[","X","1",","," ","W","2",","," ","L","S","L"," ","#","6","4","]">>,
     <<"[","X","1",","," ","X","1",","," ","L","S","L"," ","#","6","5","]">>,
     <<"[","F","O","O","]">>,
     <<"[","X","3","1",","," ","#","8","]">>,
     <<"[","X","1",","," ","Q","2","]">>,
     <<"[","X","1",","," ","X","9","9",","," ","L","S","L"," ","#","1","]">>}

\* Stores through them, after X1, X2, X3 and the source X5 were given
\* values whose upper halves are not zero
AddrSources ==
    {<<<<"M","O","V"," ","X","1",","," ","#","4","8">>,
       <<"M","O","V"," ","X","2",","," ","#","0","x","1","0","0","0","0","0","0","1","0">>,
       <<"M","O","V"," ","X","3",","," ","#","0","x","1","0","0","0","0","0","0","2","0">>,
       <<"M","O","V"," ","X","5",","," ","#","0","x","1","1","2","2","3","3","4","4","5","5","6","6","7","7","8","8">>,
       st \o m>> :
        st \in {<<"S","T","R"," ","X","5",","," ">>,
                <<"s","t","r","b"," ","w","5",","," ">>},
        m \in AddrOperands}

\* Loads of every width and destination, from bytes with their top bit
\* set, into a register whose 64 bits are all set
LoadLines ==
    {<<"L","D","R"," ","X","6",","," ","[","S","P",","," ","#","1","6","]">>,
     <<"L","D","R"," ","W","6",","," ","[","S","P",","," ","#","1","6","]">>,
     <<"l","d","r"," ","w","6",","," ","[","s","p",","," ","#","2","0","]">>,
     <<"L","D","R","B"," ","W","6",","," ","[","S","P",","," ","#","2","3","]">>,
     <<"L","D","R","B"," ","X","6",","," ","[","S","P",","," ","#","2","3","]">>,
     <<"l","d","r","b"," ","x","6",","," ","[","s","p",","," ","#","1","6","]">>,
     <<"L","D","R"," ","X","6",","," ","[","S","P",","," ","#","1","2","]">>,
     <<"L","D","R"," ","W","6",","," ","[","S","P",","," ","#","1","4","]">>,
     <<"L","D","R"," ","X","6",","," ","[","S","P",","," ","#","2","4","8","]">>,
     <<"L","D","R"," ","W","6",","," ","[","S","P",","," ","#","2","5","2","]">>,
     <<"L","D","R","B"," ","X","6",","," ","[","S","P",","," ","#","2","5","5","]">>,
     <<"L","D","R"," ","X","Z","R",","," ","[","S","P",","," ","#","1","6","]">>,
     <<"L","D","R"," ","W","Z","R",","," ","[","S","P",","," ","#","1","6","]">>,
     <<"L","D","R"," ","S","P",","," ","[","S","P",","," ","#","1","6","]">>,
     <<"L","D","R","B"," ","W","5",","," ","[","X","6",","," ","#","2","4","]">>}

LoadSources ==
    {<<<<"M","O","V"," ","X","5",","," ","#","-","8","6","0","3","6","5","7","8","8","9","5","4","1","9","1","8","9","7","7">>,
       <<"M","O","V"," ","X","6",","," ","#","-","1">>,
       <<"S","T","R"," ","X","5",","," ","[","S","P",","," ","#","1","6","]">>,
       <<"C","M","P"," ","X","5",","," ","X","6">>,
       ld,
       <<"N","O","P">>>> : ld \in LoadLines}

\* MOV and arithmetic with immediates of either sign, decimal and hex, and
\* with X, W, zero-register and SP operands
ArithLines ==
    {<<"M","O","V"," ","X","0",","," ","#","-","0","x","1","0">>,
     <<"M","O","V"," ","X","0",","," ","#","0","X","1","0">>,
     <<"M","O","V"," ","W","0",","," ","#","-","1">>,
     <<"m","o","v"," ","x","0",","," ","#","-","1">>,
     <<"S","U","B"," ","X","0",","," ","X","Z","R",","," ","#","1">>,
     <<"A","D","D"," ","X","0",","," ","X","1",","," ","#","-","0","x","1","0">>,
     <<"A","D","D"," ","X","0",","," ","X","1",","," ","#","-","1","6">>,
     <<"M","O","V"," ","X","0",","," ","#","0","x","7","f","f","f","f","f","f","f","f","f","f","f","f","f","f","f">>,
     <<"M","O","V"," ","X","0",","," ","#","-","9","2","2","3","3","7","2","0","3","6","8","5","4","7","7","5","8","0","8">>,
     <<"M","U","L"," ","W","0",","," ","W","1",","," ","#","-","2">>,
     <<"M","U","L"," ","X","0",","," ","X","1",","," ","X","1">>,
     <<"A","N","D"," ","X","0",","," ","X","1",","," ","#","0","x","f","f">>,
     <<"E","O","R"," ","W","0",","," ","W","Z","R",","," ","W","1">>,
     <<"e","o","r"," ","x","0",","," ","x","1",","," ","#","-","1">>,
     <<"A","D","D"," ","S","P",","," ","S","P",","," ","#","1","6">>,
     <<"S","U","B"," ","X","Z","R",","," ","X","1",","," ","X","1">>,
     <<"A","D","D"," ","X","0",","," ","W","1",","," ","X","1">>,
     <<"S","U","B"," ","W","0",","," ","W","2",","," ","W","1">>,
     <<"M","O","V"," ","X","0",","," ","X","1">>,
     <<"M","O","V"," ","X","0",","," ","W","1">>,
     <<"M","O","V"," ","W","0",","," ","X","1">>,
     <<"M","O","V"," ","X","0",","," ","S","P">>,
     <<"M","O","V"," ","X","Z","R",","," ","#","5">>,
     <<"A","D","D"," ","X","1",","," ","X","1",","," ","X","1">>}

\* Programs that run one of them with X1 = 0x1ffffffff, X2 = 1, the flags
\* of a CMP and a stack byte set
ArithSources ==
    {<<<<"M","O","V"," ","X","1",","," ","#","0","x","1","f","f","f","f","f","f","f","f">>,
       <<"M","O","V"," ","X","2",","," ","#","1">>,
       <<"C","M","P"," ","X","2",","," ","X","1">>,
       <<"S","T","R","B"," ","W","1",","," ","[","S","P",","," ","#","9","]">>,
       ar,
       <<"N","O","P">>>> : ar \in ArithLines}

\* Source lines with every operand count and type for ADD and LDR, lines
\* of mnemonics that have no validator, and lines with an immediate that
\* is no number
DecodeLines ==
    {<<"A","D","D"," ","#","z","z">>,
     <<"S","T","R"," ","X","0",","," ","#","9","9","9","9","9","9","9","9","9","9","9","9","9","9","9","9","9","9","9","9">>,
     <<"A","D","D"," ","X","0",","," ","X","1",","," ","X","2">>,
     <<"a","d","d"," ","x","0",","," ","x","1",","," ","#","5">>,
     <<"A","d","d"," ","W","0",","," ","W","Z","R",","," ","#","-","1">>,
     <<"A","D","D"," ","X","9","9",","," ","S","P",","," ","X","0">>,
     <<"A","D","D"," ","X","0",","," ","X","1">>,
     <<"A","D","D"," ","X","0",","," ","X","1",","," ","X","2",","," ","X","3">>,
     <<"A","D","D">>,
     <<"L",":"," ","A","D","D"," ","X","0">>,
     <<"A","D","D"," ","#","1",","," ","X","1",","," ","X","2">>,
     <<"A","D","D"," ","X","0",","," ","f","o","o",","," ","X","2">>,
     <<"A","D","D"," ","X","0",","," ","[","S","P","]",","," ","#","1">>,
     <<"A","D","D"," ","X","0",","," ","X","1",","," ","[","S","P","]">>,
     <<"a","d","d"," ","x","0",","," ","x","1",","," ","f","o","o">>,
     <<"A","D","D"," ","X","0",","," ","X","1",","," ","#","z","z">>,
     <<"L","D","R"," ","X","0",","," ","[","S","P","]">>,
     <<"l","d","r"," ","w","1",","," ","[","X","0",","," ","#","8","]">>,
     <<"L","D","R"," ","X","9","9",","," ","[","f","o","o","]">>,
     <<"L","D","R">>,
     <<"L","D","R"," ","X","0">>,
     <<"L","D","R"," ","X","0",","," ","[","S","P","]",","," ","#","8">>,
     <<"L","D","R"," ","[","S","P","]",","," ","X","0">>,
     <<"L","D","R"," ","X","0",","," ","X","1">>,
     <<"l","d","r"," ","x","0",","," ","#","8">>,
     <<"L","D","R"," ","f","o","o",","," ","[","S","P","]">>,
     <<"L","D","R"," ","X","0",","," ","[","S","P">>,
     <<"L","D","R","B"," ","X","0">>,
     <<"l","d","r","b"," ","#","1",","," ","#","2",","," ","#","3">>,
     <<"S","T","R">>,
     <<"S","U","B"," ","X","0">>,
     <<"M","O","V"," ","[","S","P","]",","," ","[","S","P","]",","," ","f","o","o",","," ","#","1">>,
     <<"B">>,
     <<"C","M","P"," ","[","X","0","]",","," ","f","o","o",","," ","b","a","r">>,
     <<"A","D","D","S"," ","X","0">>,
     <<"F","O","O"," ","X","0",","," ","X","1",","," ","[","a",","," ","b","]",","," ","#","3">>,
     <<"M","O","V"," ","X","0",","," ","#","z","z">>,
     <<"F","O","O"," ","#">>}

\* Files holding one of them as their only, first, middle or last line
DecodeSources ==
    {pre \o <<ln>> \o post :
        ln \in DecodeLines,
        pre \in {<<>>, <<<<"t","o","p",":"," ","M","O","V"," ","X","0",","," ","#","1">>>>},
        post \in {<<>>, <<<<"N","O","P">>>>}}

\* Source lines with commas inside and outside brackets, tokens of every
\* class, blank lines and comment lines
TokenLines ==
    {<<"f","o","o","","X","1",",","","#","2","",","," ","[","S","P",",","","#","8","]">>,
     <<"L","D","R"," ","X","0",","," ","[","S","P",","," ","#","8","]">>,
     <<"F","O","O"," ","X","0",",","[","X","1",",","#","8","]",",","#","3">>,
     <<"s","t","r"," ","x","1",","," ","[","X","1",","," ","X","2",","," ","L","S","L"," ","#","3","]",","," ","l","b","l">>,
     <<"F","O","O"," ","[","[","a",",","b","]",",","c","]",","," ","d">>,
     <<"F","O","O"," ","a","]",","," ","b",","," ","[","c",","," ","d">>,
     <<"F","O","O"," ","[","a",","," ","b","]",","," ","[","c",","," ","d","]",","," ","e">>,
     <<"F","O","O"," ","#","5",","," ","#","-","3",","," ","#","0","x","1","F",","," ","#","0","X","f","f">>,
     <<"F","O","O"," ","s","p",","," ","x","z","r",","," ","W","z","r",","," ","x","3","0",","," ","w","0","0","7",","," ","X","9","9">>,
     <<"F","O","O"," ","X",","," ","W",","," ","X","X","1",","," ","X","1","a",","," ","S","P","x",","," ","Y","3",","," ","1","X",","," ","x","-","1">>,
     <<"F","O","O"," "," "," ","[","S","P","]"," ",","," "," ","["," ","X","0"," ","]"," "," ",","," "," ","#","7"," "," ">>,
     <<" "," ","m","o","v","\t","X","1"," ",",","\t","l","o","o","p">>,
     <<"F","O","O"," ","[","#","1","]",","," ","#","1","]">>,
     <<"F","O","O">>,
     <<"F","O","O"," ","X","0",",">>,
     <<"F","O","O"," ","X","0",","," ",","," ","#","2">>,
     <<"#"," ","n","o","t","e">>,
     <<"/"," ","X","1">>,
     <<>>,
     <<" "," "," ">>,
     <<"\t">>,
     <<"/","/">>,
     <<"/","/"," ","A","D","D"," ","X","0",","," ","X","1">>,
     <<" "," ","/","/","M","O","V"," ","X","0",","," ","#","1">>,
     <<";">>,
     <<";"," ","L","D","R"," ","X","0">>,
     <<"\t",";","x",","," ","[","y">>}

\* Files holding one of them alone, first, in the middle or last
TokenSources ==
    {pre \o <<ln>> \o post :
        ln \in TokenLines,
        pre \in {<<>>, <<<<"M","O","V"," ","X","0",","," ","#","1">>>>},
        post \in {<<>>, <<<<"N","O","P">>>>}}

\* Programs whose branches name labels at the start, in the middle and
\* after the last instruction, and programs whose branches give a literal
\* address
BranchSources ==
    {<<<<"B"," ","e","n","d">>,
       <<"N","O","P">>,
       <<"e","n","d",":">>>>,
     <<<<"s","t","a","r","t",":"," ","C","M","P"," ","X","Z","R",","," ","#","1">>,
       <<"B",".","L","E"," ","S","k","i","p">>,
       <<"N","O","P">>,
       <<"s","k","i","p",":"," ","B",".","G","T"," ","S","T","A","R","T">>,
       <<"b",".","l","e"," ","e","n","d">>,
       <<"E","n","d",":">>>>,
     <<<<"B"," ","m","i","d">>,
       <<"m","i","d",":"," ","b","a","c","k",":"," ","N","O","P">>,
       <<"C","M","P"," ","X","0",","," ","X","0">>,
       <<"B",".","G","T"," ","b","a","c","k">>,
       <<"B",".","L","E"," ","o","u","t">>,
       <<"o","u","t",":"," ","N","O","P">>>>,
     <<<<"s","e","l","f",":"," ","B"," ","S","E","L","F">>>>,
     <<<<"N","O","P">>,
       <<"B"," ","0","x","6">>>>,
     <<<<"e",":"," ","N","O","P">>,
       <<"B"," ","E">>>>,
     <<<<"C","M","P"," ","X","0",","," ","#","0">>,
       <<"B",".","L","E"," ","0","x","1","0","0">>,
       <<"N","O","P">>>>,
     <<<<"C","M","P"," ","X","0",","," ","#","0">>,
       <<"B",".","G","T"," ","0","x","1","0","0">>,
       <<"B",".","L","E"," ","2">>>>,
     <<<<"B"," ","0","x","4">>,
       <<"N","O","P">>>>,
     <<<<"B"," ","8"," ","<","e","n","d",">">>,
       <<"N","O","P">>>>}

\* Programs that define a label name more than once, in one or several
\* letter cases, on one line or on several, with branches to the name
\* before, between and after the definitions
DupSources ==
    {<<<<"B"," ","d","u","p">>,
       <<"d","u","p",":"," ","N","O","P">>,
       <<"N","O","P">>,
       <<"D","u","p",":"," ","N","O","P">>,
       <<"D","U","P",":">>>>,
     <<<<"d","u","p",":"," ","M","O","V"," ","X","0",","," ","#","1">>,
       <<"B"," ","D","U","P">>,
       <<"N","O","P">>,
       <<"D","u","p",":"," ","N","O","P">>>>,
     <<<<"B"," ","g","o">>,
       <<"g","o",":"," ","N","O","P">>,
       <<"g","o",":"," ","R","E","T">>,
       <<"B"," ","G","O">>>>,
     <<<<"t","o","p",":"," ","N","O","P">>,
       <<"m","i","d",":"," ","t","o","p",":"," ","N","O","P">>,
       <<"C","M","P"," ","X","0",","," ","X","0">>,
       <<"B",".","L","E"," ","T","o","p">>>>,
     <<<<"x",":"," ","y",":"," ","x",":"," ","N","O","P">>,
       <<"C","M","P"," ","X","0",","," ","#","1">>,
       <<"y",":">>,
       <<"B",".","G","T"," ","x">>,
       <<"b",".","l","e"," ","Y">>>>,
     <<<<"a","b",":"," ","N","O","P">>,
       <<"A","B",":"," ","N","O","P">>,
       <<"B"," ","a","b">>>>}

\* Lines of the mnemonics that take no register operand, with a register
\* above 30 named in the operand
RegisterNameLines ==
    {<<"R","E","T"," ","X","9","9">>,
     <<"r","e","t"," ","w","3","1">>,
     <<"N","O","P"," ","X","3","1">>,
     <<"n","o","p"," ","W","9","9",","," ","X","0">>,
     <<"B"," ","X","9","9">>,
     <<"b",".","l","e"," ","W","3","1">>,
     <<"B",".","G","T"," ","x","4","0">>,
     <<"f","o","o"," ","x","9","9">>}

RegisterNameSources ==
    {<<<<"M","O","V"," ","X","0",","," ","#","7">>, ln, <<"N","O","P">>>> :
        ln \in RegisterNameLines}

\* Programs that halt on a RET before their end
HaltSources ==
    {<<<<"M","O","V"," ","X","0",","," ","#","1">>,
       <<"R","E","T">>,
       <<"N","O","P">>>>,
     <<<<"r","e","t">>,
       <<"N","O","P">>>>}

Sources ==
    GenSources \cup MemSources \cup RoundTripSources \cup CmpSources
        \cup ErrSources \cup HaltSources \cup WDestSources
        \cup UnknownSources \cup AddrSources \cup LoadSources
        \cup ArithSources \cup DecodeSources \cup TokenSources
        \cup BranchSources \cup DupSources \cup RegisterNameSources

\* Programs for direct calls of step, from any flags and any pc
DirectSources ==
    {<<<<"/","/"," ","n","o","t","h","i","n","g">>>>,
     <<<<"B",".","G","T"," ","T">>,
       <<"b",".","l","e"," ","t">>,
       <<"N","O","P">>,
       <<"T",":"," ","R","E","T">>>>,
     <<<<"b",".","g","t"," ","n","o","l","a","b","e","l">>,
       <<"B",".","L","E"," ","0","x","8">>,
       <<"B",".","L","E"," ","E">>,
       <<"E",":">>>>,
     <<<<"M","O","V"," ","X","5",","," ","#","-","2">>,
       <<"S","T","R"," ","X","5",","," ","[","S","P",","," ","#","2","4","8","]">>,
       <<"L","D","R"," ","W","6",","," ","[","S","P",","," ","#","2","5","2","]">>,
       <<"L","D","R","B"," ","W","7",","," ","[","S","P",","," ","#","-","1","]">>>>,
     <<<<"R","E","T">>,
       <<"M","O","V"," ","X","0",","," ","#","-","1">>,
       <<"S","T","R","B"," ","W","0",","," ","[","S","P",","," ","#","3","]">>,
       <<"r","e","t"," ","x","3","0">>,
       <<"N","O","P">>,
       <<"R","e","t">>>>,
     <<<<"M","O","V"," ","X","2",","," ","#","0","x","7","f","f","f","f","f","f","f","f","f","f","f","f","f","f","f">>,
       <<"A","D","D"," ","X","2",","," ","X","2",","," ","#","1">>,
       <<"S","U","B"," ","X","0",","," ","X","0",","," ","X","0">>,
       <<"S","U","B"," ","X","1",","," ","X","Z","R",","," ","#","1">>,
       <<"M","U","L"," ","X","4",","," ","X","2",","," ","X","2">>,
       <<"E","O","R"," ","W","3",","," ","X","1",","," ","X","2">>,
       <<"A","N","D"," ","X","5",","," ","X","1",","," ","X","2">>>>,
     <<<<"B",".","L","E"," ","m","i","s","s","i","n","g">>,
       <<"b",".","g","t"," ","M","i","s","s","i","n","g"," ","<","x",">">>,
       <<"N","O","P">>>>,
     <<<<"B",".","L","E"," ","f","i","n">>,
       <<"b",".","g","t"," ","F","I","N">>,
       <<"B"," ","F","i","n">>,
       <<"M","O","V"," ","X","0",","," ","#","1">>,
       <<"f","i","n",":">>>>,
     <<<<"t",":"," ","N","O","P">>,
       <<"T",":"," ","N","O","P">>,
       <<"t",":"," ","N","O","P">>,
       <<"B",".","G","T"," ","t">>,
       <<"B",".","L","E"," ","T">>>>,
     <<<<"B"," ","T">>,
       <<"F","O","O"," ","X","1">>,
       <<"T",":"," ","l","s","l"," ","x","0",","," ","x","0",","," ","#","1">>>>}

\* Every value of the four flags
FlagStates == [N : BOOLEAN, Z : BOOLEAN, C : BOOLEAN, V : BOOLEAN]

\* Base addresses of the stack of a direct caller
StackBases == {Zero64, U64(4096)}

\* The pcs a direct caller starts from: every instruction, the end of the
\* program, and addresses that are neither
StartPCs(p) ==
    {U64(4 * i) : i \in 0..(Len(p.code) + 1)} \cup {U64(2)}

\* The indices a caller of the Register File passes (unsigned n): general
\* registers, the zero register, and indices outside 0..31
AccessIndices == {0, 30, XZR_INDEX, XZR_INDEX + 1, 999}

\* The values it writes
AccessValues ==
    {<<16, 50, 84, 118, 152, 186, 220, 254>>,
     <<136, 119, 102, 85, 68, 51, 34, 17>>}

\* No accessor was called yet
NoAccess == [op |-> "none", n |-> 0, value |-> Zero64]

\* A call of an accessor: its name, its arguments, its exception, the
\* value it returned, and the call before it
Accessed(op, n, value, r, val) ==
    [op |-> op, n |-> n, value |-> value, err |-> r.err, val |-> val,
     last |-> [op |-> access.op, n |-> access.n, value |-> access.value]]

\* Nothing is built, constructed or called yet
Fresh ==
    /\ phase = "build"
    /\ src_line = 0
    /\ instrIndex = 0
    /\ prog = EmptyProgram
    /\ regs = NewRegisters
    /\ stack = NewStack(Zero64)
    /\ pc = Zero64
    /\ steps = 0
    /\ ret = "none"
    /\ err = ""
    /\ prev = Snapshot(NewRegisters, NewStack(Zero64), Zero64, <<>>)
    /\ access = NoAccess

Init ==
    /\ \/ caller = "main" /\ src \in Sources
       \/ caller = "direct" /\ src \in DirectSources
       \/ caller = "regfile" /\ src = <<>>
    /\ Fresh

\* buildFileProgram: one iteration of the getline loop.  An exception of
\* the decoder leaves buildFileProgram and main without a program.
BuildLine ==
    /\ phase = "build"
    /\ src_line < Len(src)
    /\ \E b \in {buildLine(prog, instrIndex, src[src_line + 1])} :
           /\ src_line' = src_line + 1
           /\ IF b.err # ""
              THEN /\ phase' = "build_error"
                   /\ err' = b.err
                   /\ prog' = EmptyProgram
                   /\ instrIndex' = instrIndex
              ELSE /\ phase' = phase
                   /\ err' = err
                   /\ prog' = b.prog
                   /\ instrIndex' = b.instrIndex
    /\ UNCHANGED <<src, caller, regs, stack, pc, steps, ret, prev, access>>

\* buildFileProgram returns at the end of the file; main leaves when the
\* program is empty, else makes the stack, fills it when it was given
\* --random-stack, and sets SP to the stack base and PC to 0
\* (executor_main.cpp lines 41-55).
BuildDone ==
    /\ caller = "main"
    /\ phase = "build"
    /\ src_line = Len(src)
    /\ IF Len(prog.code) = 0
       THEN /\ phase' = "empty"
            /\ UNCHANGED <<regs, stack, pc>>
       ELSE /\ phase' = "run"
            /\ pc' = Zero64
            /\ regs' = writePC(writeSP(regs, stack.base), Zero64)
            /\ \E random_stack \in BOOLEAN :
                  stack' = IF random_stack THEN fillRandom(stack) ELSE stack
    /\ prev' = Snapshot(regs', stack', pc', <<>>)
    /\ UNCHANGED <<src, caller, src_line, instrIndex, prog, steps,
                   ret, err, access>>

\* One iteration of main's while loop (executor_main.cpp lines 61-81)
Iteration ==
    /\ caller = "main"
    /\ phase = "run"
    /\ steps' = steps + 1
    /\ IF StepLimitReached(steps + 1)
       THEN /\ phase' = "max_steps"
            /\ UNCHANGED <<regs, stack, pc, ret, err, prev>>
       ELSE IF pc = endAddr(prog)
       THEN /\ phase' = "finished"
            /\ UNCHANGED <<regs, stack, pc, ret, err, prev>>
       ELSE IF pc \notin DOMAIN prog.addr2idx
       THEN /\ phase' = "unknown_pc"
            /\ UNCHANGED <<regs, stack, pc, ret, err, prev>>
       ELSE \E ub \in UBOutcomes :
              \E r \in {step(prog, regs, stack, pc, ub)} :
                  /\ prev' = Snapshot(regs, stack, pc,
                                      IF ret = "none" THEN <<>> ELSE prev.pc)
                  /\ regs' = r.regs
                  /\ stack' = r.stack
                  /\ pc' = r.pc
                  /\ ret' = r.ret
                  /\ err' = r.err
                  /\ phase' = CASE r.ret = "true"  -> "run"
                                [] r.ret = "false" -> "finished"
                                [] r.ret = "throw" -> "error"
                                [] OTHER           -> "aborted"
    /\ UNCHANGED <<src, caller, src_line, instrIndex, prog, access>>

\* The iterations explored one by one: the first StepBound, and the last
\* before the ceiling
Loop ==
    /\ steps < StepBound \/ steps >= kMaxSteps - StepBound
    /\ Iteration

\* A direct caller of step (executor.hpp lines 52-54) has built the
\* program and makes its own Registers and Stack: any flags, a stack at
\* any base with SP at the base, any pc.
Setup ==
    /\ caller = "direct"
    /\ phase = "build"
    /\ src_line = Len(src)
    /\ \E f \in FlagStates, base \in StackBases, p \in StartPCs(prog) :
         /\ stack' = NewStack(base)
         /\ regs' = writePC(writeSP([NewRegisters EXCEPT !.psr = f], base), p)
         /\ pc' = p
    /\ phase' = "call"
    /\ prev' = Snapshot(regs', stack', pc', <<>>)
    /\ UNCHANGED <<src, caller, src_line, instrIndex, prog, steps, ret, err,
                   access>>

\* The direct caller calls step, and again after it returned or threw
Call ==
    /\ caller = "direct"
    /\ phase = "call"
    /\ steps < StepBound
    /\ steps' = steps + 1
    /\ \E ub \in UBOutcomes :
         \E r \in {step(prog, regs, stack, pc, ub)} :
             /\ prev' = Snapshot(regs, stack, pc,
                                 IF ret = "none" THEN <<>> ELSE prev.pc)
             /\ regs' = r.regs
             /\ stack' = r.stack
             /\ pc' = r.pc
             /\ ret' = r.ret
             /\ err' = r.err
             /\ phase' = IF r.ret = "abort" THEN "aborted" ELSE "call"
    /\ UNCHANGED <<src, caller, src_line, instrIndex, prog, access>>

\* A caller of the Register File alone constructs a Registers object and
\* sets SP, PC and the flags through writeSP, writePC and state()
\* (registers.hpp lines 40-44, 71-79).
Prepare ==
    /\ caller = "regfile"
    /\ phase = "build"
    /\ \E f \in {[N |-> TRUE, Z |-> TRUE, C |-> TRUE, V |-> TRUE]} :
         regs' = writePC(writeSP([NewRegisters EXCEPT !.psr = f],
                                 U64(4096)), U64(8))
    /\ phase' = "access"
    /\ prev' = Snapshot(regs', stack, pc, <<>>)
    /\ UNCHANGED <<src, caller, src_line, instrIndex, prog, stack, pc, steps,
                   ret, err, access>>

\* It calls readX (registers.hpp lines 47-51)
CallReadX ==
    /\ caller = "regfile"
    /\ phase = "access"
    /\ \E n \in AccessIndices :
         \E r \in {readX(regs, n)} :
             access' = Accessed("readX", n, Zero64, r, r.val)
    /\ prev' = Snapshot(regs, stack, pc, <<>>)
    /\ UNCHANGED <<src, caller, phase, src_line, instrIndex, prog, regs,
                   stack, pc, steps, ret, err>>

\* It calls writeX (registers.hpp lines 53-57)
CallWriteX ==
    /\ caller = "regfile"
    /\ phase = "access"
    /\ \E n \in AccessIndices, v \in AccessValues :
         \E r \in {writeX(regs, n, v)} :
             /\ regs' = r.regs
             /\ access' = Accessed("writeX", n, v, r, Zero64)
    /\ prev' = Snapshot(regs, stack, pc, <<>>)
    /\ UNCHANGED <<src, caller, phase, src_line, instrIndex, prog, stack, pc,
                   steps, ret, err>>

\* It calls readW (registers.hpp lines 60-62)
CallReadW ==
    /\ caller = "regfile"
    /\ phase = "access"
    /\ \E n \in AccessIndices :
         \E r \in {readW(regs, n)} :
             access' = Accessed("readW", n, Zero64, r, r.val)
    /\ prev' = Snapshot(regs, stack, pc, <<>>)
    /\ UNCHANGED <<src, caller, phase, src_line, instrIndex, prog, regs,
                   stack, pc, steps, ret, err>>

\* It calls writeW with a uint32_t value (registers.hpp lines 64-68)
CallWriteW ==
    /\ caller = "regfile"
    /\ phase = "access"
    /\ \E n \in AccessIndices, v \in AccessValues :
         \E r \in {writeW(regs, n, U32(v))} :
             /\ regs' = r.regs
             /\ access' = Accessed("writeW", n, U32(v), r, Zero64)
    /\ prev' = Snapshot(regs, stack, pc, <<>>)
    /\ UNCHANGED <<src, caller, phase, src_line, instrIndex, prog, stack, pc,
                   steps, ret, err>>

Next ==
    \/ BuildLine \/ BuildDone \/ Loop \/ Setup \/ Call
    \/ Prepare \/ CallReadX \/ CallWriteX \/ CallReadW \/ CallWriteW

Spec == Init /\ [][Next]_vars

\* The program of a backward branch that never reaches its end
LoopSource ==
    <<<<"L","O","O","P",":"," ","A","D","D"," ","X","0",",","X","0",",","#","1">>,
      <<"B"," ","L","O","O","P">>>>

\* main's state after n calls of step on LoopSource: the ADD ran at calls
\* 1, 3, 5, ... and the branch back at calls 2, 4, 6, ...
LoopPc(n) == U64(4 * (n % 2))
LoopRegs(n) ==
    [writePC(writeSP(NewRegisters, Zero64), LoopPc(n))
        EXCEPT !.x[0] = U64((n + 1) \div 2)]
LoopPrev(n, st) ==
    Snapshot(LoopRegs(n - 1), st, LoopPc(n - 1),
             IF n < 2 THEN <<>> ELSE LoopPc(n - 2))

\* The iterations of LoopSource between the first StepBound and the last
\* StepBound, taken at once: each pair of them adds 1 to X0 and returns to
\* pc = 0
Skip ==
    /\ caller = "main"
    /\ phase = "run"
    /\ src = LoopSource
    /\ steps = StepBound
    /\ regs = LoopRegs(steps)
    /\ stack \in {NewStack(Zero64), fillRandom(NewStack(Zero64))}
    /\ pc = LoopPc(steps)
    /\ prev = LoopPrev(steps, stack)
    /\ ret = "true"
    /\ steps' = kMaxSteps - StepBound
    /\ regs' = LoopRegs(steps')
    /\ pc' = LoopPc(steps')
    /\ prev' = LoopPrev(steps', stack)
    /\ UNCHANGED <<src, caller, phase, src_line, instrIndex, prog, stack,
                   ret, err, access>>

\* Programs run up to main's ceiling or to their halt
CeilingSources ==
    {LoopSource} \cup HaltSources \cup UnknownSources \cup WDestSources

InitCeiling ==
    /\ caller = "main"
    /\ src \in CeilingSources
    /\ Fresh

NextCeiling == BuildLine \/ BuildDone \/ Loop \/ Skip

\* A step of NextCeiling is possible: the guards of its actions
CanGoOn ==
    \/ phase = "build"
    \/ phase = "run" /\ (steps < StepBound \/ steps >= kMaxSteps - StepBound)
    \/ phase = "run" /\ steps = StepBound /\ src = LoopSource

\* main runs as one sequential thread: it goes on while it can (weak
\* fairness of NextCeiling, with its enabling condition written out)
SpecCeiling ==
    /\ InitCeiling
    /\ [][NextCeiling]_vars
    /\ []<>(~CanGoOn) \/ []<><<NextCeiling>>_vars

(***************************************************************************)
(* Properties.  ret, err and prev record the last call of step, so each    *)
(* property of a call is an invariant of the state after it.               *)
(***************************************************************************)
\* The last call of step returned true or false
Returned == ret \in {"true", "false"}

\* The last call of step fetched an instruction
Fetched ==
    /\ ret # "none"
    /\ Len(prog.code) > 0
    /\ prev.pc # endAddr(prog)
    /\ prev.pc \in DOMAIN prog.addr2idx

\* The instruction the last call executed
LastInst == prog.code[prog.addr2idx[prev.pc] + 1].inst
LastMnem == upperCopy(LastInst.mnem)
LastOps  == LastInst.operands

\* The call before the last one was at the instruction just before
Consecutive ==
    /\ Fetched
    /\ prev.last \in DOMAIN prog.addr2idx
    /\ Add64(prev.last, U64(4)) = prev.pc

\* The instruction of the call before the last one
EarlierInst == prog.code[prog.addr2idx[prev.last] + 1].inst
EarlierMnem == upperCopy(EarlierInst.mnem)
EarlierOps  == EarlierInst.operands

\* The operand names a general register, XZR/WZR or SP
NamesRegister(op) ==
    op.type = "Register" /\ regIndex(op.raw) \in 0..(XZR_INDEX + 1)

\* The value of the register an operand names: 0 for XZR, the low 32 bits
\* for a W register
RegisterValue(op, r) ==
    LET n == regIndex(op.raw)
        v == IF n = XZR_INDEX THEN Zero64
             ELSE IF n = XZR_INDEX + 1 THEN r.sp
             ELSE r.x[n]
    IN  IF isWReg(upperCopy(op.raw))
        THEN [i \in 1..8 |-> IF i <= 4 THEN v[i] ELSE 0]
        ELSE v

\* The value of a register or immediate operand
OperandValue(op, r) ==
    IF op.type = "Immediate" THEN op.imm ELSE RegisterValue(op, r)

\* v truncated to w bits (w is 32 or 64), and its sign bit
Truncated(v, w) == [i \in 1..8 |-> IF 8 * i <= w THEN v[i] ELSE 0]
SignBit(v, w) == v[w \div 8] >= 128

\* a >= b and a > b as unsigned numbers, decided from the top byte down
RECURSIVE UnsignedGe(_, _, _)
UnsignedGe(a, b, i) ==
    IF i = 0 THEN TRUE
    ELSE IF a[i] # b[i] THEN a[i] > b[i]
    ELSE UnsignedGe(a, b, i - 1)

UnsignedGt(a, b) == a # b /\ UnsignedGe(a, b, 8)

\* a > b as signed w-bit numbers: a negative number is below a
\* non-negative one, and numbers of one sign compare as unsigned
SignedGt(a, b, w) ==
    IF SignBit(a, w) # SignBit(b, w) THEN SignBit(b, w)
    ELSE UnsignedGt(Truncated(a, w), Truncated(b, w))

\* The window [a, a + w) lies inside [base, base + size), in unbounded
\* integers: base <= a and a - base <= size - w
InStack(st, a, w) ==
    /\ UnsignedGe(a, st.base, 8)
    /\ UnsignedGe(U64(stackSize - w), Sub64(a, st.base), 8)

\* The exceptions that report an access outside the stack
MemoryBoundsErrors ==
    {"STR out of stack bounds", "LDR out of stack bounds",
     "STRB out of stack bounds", "LDRB out of stack bounds",
     "STR (32) out of stack bounds", "LDR (32) out of stack bounds",
     "stack write/read out of range"}


(***************************************************************************)
(* C2                                                                      *)
(***************************************************************************)
\* The last call executed a load or store with a register and a memory
\* operand whose address could be computed
AccessCase ==
    /\ Fetched
    /\ LastMnem \in {MnLDR, MnLDRB, MnSTR, MnSTRB}
    /\ Len(LastOps) = 2
    /\ NamesRegister(LastOps[1])
    /\ LastOps[2].type = "Memory"
    /\ effectiveAddr(LastOps[2], prev.regs).err = ""

AccessAddr == effectiveAddr(LastOps[2], prev.regs).val

AccessWidth ==
    IF LastMnem \in {MnLDRB, MnSTRB} THEN 1
    ELSE IF isWReg(upperCopy(LastOps[1].raw)) THEN 4
    ELSE 8

\* C2: an access of width w at address a succeeds if and only if
\* base <= a and a + w <= base + size in unbounded integers; otherwise the
\* step fails with a memory-bounds error and the stack is untouched.
C2_AccessSucceedsIffInBounds ==
    AccessCase =>
        IF InStack(prev.stack, AccessAddr, AccessWidth)
        THEN Returned
        ELSE /\ ret = "throw"
             /\ err \in MemoryBoundsErrors
             /\ stack = prev.stack

(***************************************************************************)
(* C3                                                                      *)
(***************************************************************************)
\* The last two calls executed STR Rs,[mem] and then LDR Rd,[mem] with the
\* same memory operand and register width, the window inside the stack
RoundTripCase ==
    /\ Consecutive
    /\ Returned
    /\ EarlierMnem = MnSTR
    /\ LastMnem = MnLDR
    /\ AccessCase
    /\ Len(EarlierOps) = 2
    /\ NamesRegister(EarlierOps[1])
    /\ regIndex(EarlierOps[1].raw) \in 0..XZR_INDEX
    /\ regIndex(LastOps[1].raw) \in 0..(XZR_INDEX - 1)
    /\ EarlierOps[2] = LastOps[2]
    /\ isWReg(upperCopy(EarlierOps[1].raw)) = isWReg(upperCopy(LastOps[1].raw))
    /\ InStack(prev.stack, AccessAddr, AccessWidth)

\* C3: STR Xs,[mem] followed by LDR Xd,[mem] leaves Xd equal to the value
\* of Xs; STR Ws followed by LDR Wd leaves in Xd the low 32 bits of that
\* value, zero-extended.
C3_StoreLoadRoundTrip ==
    RoundTripCase =>
        regs.x[regIndex(LastOps[1].raw)] =
            RegisterValue(EarlierOps[1], prev.regs)

\* A W-register round trip through an address formed from a base and a
\* shifted index register, of a value whose upper half is not zero
C3_Witness ==
    /\ RoundTripCase
    /\ AccessWidth = 4
    /\ AccessAddr = U64(240)
    /\ prev.regs.x[5][5] # 0
    /\ regs.x[6] = Truncated(prev.regs.x[5], 32)

(***************************************************************************)
(* C4                                                                      *)
(***************************************************************************)
\* The last call executed CMP Rn, (Rm | #imm) and returned
CmpCase ==
    /\ Fetched
    /\ LastMnem = MnCMP
    /\ Returned

\* The flags of the subtraction a - b at width w
SubtractionFlags(a, b, w) ==
    LET ta == Truncated(a, w)
        tb == Truncated(b, w)
        r  == Truncated(Sub64(ta, tb), w)
    IN  [N |-> SignBit(r, w),
         Z |-> r = Zero64,
         C |-> UnsignedGe(ta, tb, 8),
         V |-> SignBit(ta, w) # SignBit(tb, w)
               /\ SignBit(r, w) # SignBit(ta, w)]

\* The width of a comparison: 32 when Rn is a W register, else 64
CmpWidth(ops) == IF isWReg(upperCopy(ops[1].raw)) THEN 32 ELSE 64

\* C4: after CMP Rn, (Rm | #imm) the flags are those of r = Rn - Rm at
\* Rn's width w, both operands truncated to w bits: N = bit w-1 of r,
\* Z = (r = 0), C = (Rn >= Rm unsigned), V = (sign(Rn) # sign(Rm) and
\* sign(r) # sign(Rn)).
C4_CmpSetsAllFourFlags ==
    CmpCase =>
        regs.psr = SubtractionFlags(OperandValue(LastOps[1], prev.regs),
                                    OperandValue(LastOps[2], prev.regs),
                                    CmpWidth(LastOps))

\* A 32-bit comparison that overflows: 0x80000000 - 1
C4_Witness ==
    /\ CmpCase
    /\ CmpWidth(LastOps) = 32
    /\ OperandValue(LastOps[1], prev.regs) = <<0, 0, 0, 128, 0, 0, 0, 0>>
    /\ OperandValue(LastOps[2], prev.regs) = One64
    /\ regs.psr = [N |-> FALSE, Z |-> FALSE, C |-> TRUE, V |-> TRUE]

(***************************************************************************)
(* C5                                                                      *)
(***************************************************************************)
\* The last call executed B.GT or B.LE with a single label operand
BcondCase ==
    /\ Fetched
    /\ LastMnem \in {MnBGT, MnBLE}
    /\ Len(LastOps) = 1
    /\ LastOps[1].type = "Label"

\* The conditions as the claim states them
GreaterThan(f) == ~f.Z /\ f.N = f.V
LessOrEqual(f) == f.Z \/ f.N # f.V

\* The condition of the last branch, on the flags before the call
LastCondition ==
    IF LastMnem = MnBGT THEN GreaterThan(prev.regs.psr)
    ELSE LessOrEqual(prev.regs.psr)

\* The target of the last branch and the address after it
LastTarget == resolveBranchTarget(prog, LastOps[1].raw)
FallThrough == Add64(prev.pc, U64(4))

\* C5: in every flag state B.GT is taken iff Z = 0 and N = V and B.LE iff
\* Z = 1 or N # V, so a branch is taken exactly when the other one would
\* not be; a taken branch sets the PC to the resolved target, an untaken
\* one to pc + 4, and nothing but the PC changes.
C5_ConditionalBranch ==
    /\ BcondCase /\ Returned =>
          /\ pc = IF LastCondition THEN LastTarget.addr ELSE FallThrough
          /\ regs = [prev.regs EXCEPT !.pc = pc]
          /\ stack = prev.stack
    /\ BcondCase /\ (~LastCondition \/ LastTarget.err = "") => Returned
    /\ BcondCase /\ Returned /\ LastTarget.addr # FallThrough =>
          ((pc = LastTarget.addr) <=>
              ~take(IF LastMnem = MnBGT THEN MnBLE ELSE MnBGT,
                    prev.regs.psr))

\* B.LE taken on Z alone, in a flag state no CMP produces, to a target
\* that is not the next instruction
C5_Witness ==
    /\ BcondCase
    /\ Returned
    /\ LastMnem = MnBLE
    /\ prev.regs.psr = [N |-> TRUE, Z |-> TRUE, C |-> FALSE, V |-> TRUE]
    /\ LastTarget.err = ""
    /\ LastTarget.addr # FallThrough
    /\ pc = LastTarget.addr

(***************************************************************************)
(* C6                                                                      *)
(***************************************************************************)
\* The last two calls executed CMP Rn, (Rm | #imm) and then B.GT or B.LE
\* to a target that can be resolved and is not the next instruction
CmpBranchCase ==
    /\ Consecutive
    /\ BcondCase
    /\ Returned
    /\ EarlierMnem = MnCMP
    /\ LastTarget.err = ""
    /\ LastTarget.addr # FallThrough

\* C6: CMP with Rn = a and Rm = b followed by B.GT takes the branch iff
\* a > b as signed w-bit integers, and followed by B.LE iff a <= b, also
\* when a - b overflows the signed range.
C6_CmpThenBranchIsSignedOrder ==
    CmpBranchCase =>
        ((pc = LastTarget.addr) <=>
            (SignedGt(OperandValue(EarlierOps[1], prev.regs),
                      OperandValue(EarlierOps[2], prev.regs),
                      CmpWidth(EarlierOps))
             <=> LastMnem = MnBGT))

\* The most negative 64-bit value compared with 1: the subtraction
\* overflows and B.LE is taken
C6_Witness ==
    /\ CmpBranchCase
    /\ CmpWidth(EarlierOps) = 64
    /\ OperandValue(EarlierOps[1], prev.regs) = Min64
    /\ OperandValue(EarlierOps[2], prev.regs) = One64
    /\ LastMnem = MnBLE
    /\ pc = LastTarget.addr

(***************************************************************************)
(* C7                                                                      *)
(***************************************************************************)
\* The last call executed B with one operand
BranchCase ==
    /\ Fetched
    /\ LastMnem = MnB
    /\ Len(LastOps) = 1

\* The key under which the builder records the name in the operand
LastLabelKey == upperCopy(trimCopy(LastOps[1].raw))

\* C7: for every label the builder recorded, B <name> with the name in
\* any letter case sets the PC to the address recorded for the label.
C7_BranchToRecordedLabel ==
    BranchCase /\ LastLabelKey \in DOMAIN prog.labels =>
        /\ Returned
        /\ pc = prog.labels[LastLabelKey]

(***************************************************************************)
(* C8                                                                      *)
(***************************************************************************)
\* A literal hex address token: hex digits, after an optional 0x or 0X
IsHexToken(t) ==
    LET digits == IF Len(t) >= 2 /\ t[1] = "0" /\ t[2] \in {"x", "X"}
                  THEN SubSeq(t, 3, Len(t))
                  ELSE t
    IN  /\ digits # <<>>
        /\ \A i \in 1..Len(digits) :
              digits[i] \in
                  {"0", "1", "2", "3", "4", "5", "6", "7", "8", "9",
                   "a", "b", "c", "d", "e", "f",
                   "A", "B", "C", "D", "E", "F"}

\* The last call executed B, or B.GT / B.LE with its condition true, and
\* the operand is neither a recorded label nor a hex address token
UnknownTargetCase ==
    /\ Fetched
    /\ LastMnem \in {MnB, MnBGT, MnBLE}
    /\ Len(LastOps) = 1
    /\ LastOps[1].type = "Label"
    /\ LastMnem = MnB \/ LastCondition
    /\ LastLabelKey \notin DOMAIN prog.labels
    /\ ~IsHexToken(trimCopy(LastOps[1].raw))

\* C8: a B, or a taken B.GT / B.LE, whose operand is neither a recorded
\* label nor a literal hex address token fails with an undefined-label
\* error and changes nothing; a B whose operands are not a single Label
\* operand fails too.
C8_UnknownTargetFails ==
    /\ UnknownTargetCase =>
          /\ ret = "throw"
          /\ err = "undefined label"
          /\ regs = prev.regs
          /\ stack = prev.stack
          /\ pc = prev.pc
    /\ (/\ Fetched
        /\ LastMnem = MnB
        /\ ~(Len(LastOps) = 1 /\ LastOps[1].type = "Label"))
       => ret = "throw"

(***************************************************************************)
(* C9                                                                      *)
(***************************************************************************)
\* A line that is blank or holds only a comment
CommentOrBlank(line) ==
    LET s == trimCopy(line)
    IN  \/ s = <<>>
        \/ s[1] = ";"
        \/ Len(s) >= 2 /\ s[1] = "/" /\ s[2] = "/"

\* The label prefixes of a line
PrefixLabels(line) ==
    IF CommentOrBlank(line) THEN {}
    ELSE DOMAIN collectLeadingLabels(line, Zero64, <<>>).labels

\* C9: build maps every label prefix of a line to 4 * k, k being the
\* number of instructions emitted before the line, and a blank or
\* comment-only line does not advance the address counter.
C9_LabelsAndCommentLines ==
    [][(phase = "build" /\ phase' = "build" /\ src_line' = src_line + 1) =>
          /\ \A k \in PrefixLabels(src[src_line']) :
                /\ k \in DOMAIN prog'.labels
                /\ prog'.labels[k] = U64(4 * Len(prog.code))
          /\ CommentOrBlank(src[src_line']) =>
                /\ instrIndex' = instrIndex
                /\ Len(prog'.code) = Len(prog.code)]_vars

(***************************************************************************)
(* C10                                                                     *)
(***************************************************************************)
\* The instruction addresses of a program of n instructions
Addresses(n) == {U64(4 * i) : i \in 0..(n - 1)}

\* C10: in every program build produces, of n instructions, code[i].addr
\* is 4 * i and code[i].instrIndex is i + 1, addr2idx maps exactly the
\* keys 0, 4, .., 4 * (n - 1) with addr2idx[4 * i] = i, and every label's
\* address is one of 0, 4, .., 4 * n.
C10_ProgramLayout ==
    LET n == Len(prog.code)
    IN  /\ \A i \in 0..(n - 1) :
              /\ prog.code[i + 1].addr = U64(4 * i)
              /\ prog.code[i + 1].instrIndex = i + 1
              /\ prog.addr2idx[U64(4 * i)] = i
        /\ DOMAIN prog.addr2idx = Addresses(n)
        /\ \A k \in DOMAIN prog.labels :
              prog.labels[k] \in Addresses(n + 1)

\* A finished program of two instructions with a label at the end
\* sentinel
C10_Witness ==
    /\ phase = "run"
    /\ Len(prog.code) = 2
    /\ Len(src) = 3
    /\ \E k \in DOMAIN prog.labels : prog.labels[k] = U64(8)

(***************************************************************************)
(* C11                                                                     *)
(***************************************************************************)
\* The end sentinel 4 * n of the program
EndSentinel == U64(4 * Len(prog.code))

\* The program holds no branch and no RET
StraightLine ==
    \A i \in 1..Len(prog.code) :
        upperCopy(prog.code[i].inst.mnem) \notin {MnB, MnBGT, MnBLE, MnRET}

\* C11: a step that executes an instruction other than RET returns true
\* iff the next PC is not the end sentinel 4 * n; so in a program without
\* RET and branches run from pc = 0, call k leaves pc = 4 * k and returns
\* true for k < n and false for k = n.
C11_ContinueUntilEnd ==
    /\ Fetched /\ Returned /\ LastMnem # MnRET =>
          (ret = "true" <=> pc # EndSentinel)
    /\ caller = "main" /\ StraightLine /\ Returned =>
          /\ pc = U64(4 * steps)
          /\ ret = "true" <=> steps < Len(prog.code)
          /\ ret = "false" <=> steps = Len(prog.code)

\* The third call in a program of three instructions returned false at
\* pc = 12
C11_Witness ==
    /\ caller = "main"
    /\ StraightLine
    /\ Len(prog.code) = 3
    /\ steps = 3
    /\ ret = "false"
    /\ pc = U64(12)
    /\ prev.pc = U64(8)

(***************************************************************************)
(* C12                                                                     *)
(***************************************************************************)
\* C12: a step at a RET, wherever it stands in the program, returns false
\* and changes no general register, not SP, no flag and no stack byte.
C12_RetHalts ==
    Fetched /\ LastMnem = MnRET =>
        /\ ret = "false"
        /\ regs.x = prev.regs.x
        /\ regs.sp = prev.regs.sp
        /\ regs.psr = prev.regs.psr
        /\ stack = prev.stack

\* A RET in the middle of a program of six instructions, reached with a
\* register, a flag and a stack byte set
C12_Witness ==
    /\ Fetched
    /\ LastMnem = MnRET
    /\ Len(prog.code) = 6
    /\ prev.pc = U64(12)
    /\ ret = "false"
    /\ prev.regs.x[0] = Ones64
    /\ prev.regs.psr.V
    /\ prev.stack.mem[3] = 255

(***************************************************************************)
(* C13                                                                     *)
(***************************************************************************)
\* The pc of the last call is neither an instruction address nor the end
\* sentinel
InvalidPcCase ==
    /\ ret # "none"
    /\ prev.pc \notin Addresses(Len(prog.code))
    /\ prev.pc # EndSentinel

\* C13: for a program of n >= 0 instructions, step at pc = 4 * n returns
\* false, and step at a pc that is neither an instruction address nor
\* 4 * n fails with an invalid-PC error and changes nothing.
C13_EndAndInvalidPc ==
    /\ ret # "none" /\ prev.pc = EndSentinel => ret = "false"
    /\ InvalidPcCase =>
          /\ ret = "throw"
          /\ err = "PC points to unknown address"
          /\ regs = prev.regs
          /\ stack = prev.stack
          /\ pc = prev.pc

(***************************************************************************)
(* C14                                                                     *)
(***************************************************************************)
\* The next PC of the instruction of the last call: the resolved target
\* of B and of a taken B.GT / B.LE, else pc + 4
NextPcOfLast ==
    IF LastMnem = MnB \/ (LastMnem \in {MnBGT, MnBLE} /\ LastCondition)
    THEN LastTarget.addr
    ELSE FallThrough

\* C14 as stated: in the run of main, after each call of step that
\* completes without error the PC register equals the caller's pc, which
\* is the next PC of the executed instruction.
C14_PcIsNextPc ==
    caller = "main" /\ Fetched /\ Returned =>
        /\ regs.pc = pc
        /\ pc = NextPcOfLast

\* C14 amended: in the run of main the PC register always equals the
\* caller's pc; after a call that completes without error both hold the
\* next PC of the executed instruction, except after RET, which leaves
\* both at the address of the RET.
C14_PcRegisterFollowsPc ==
    /\ caller = "main" => regs.pc = pc
    /\ caller = "main" /\ Fetched /\ Returned =>
          pc = IF LastMnem = MnRET THEN prev.pc ELSE NextPcOfLast

\* main ran a B.LE that was taken to a target other than the next
\* instruction
C14_Witness ==
    /\ caller = "main"
    /\ Fetched
    /\ ret = "true"
    /\ LastMnem = MnBLE
    /\ LastCondition
    /\ pc = LastTarget.addr
    /\ pc # FallThrough
    /\ regs.pc = pc

(***************************************************************************)
(* C15                                                                     *)
(***************************************************************************)
\* The last two accessor calls were a write by op and a read by rd of the
\* same general register
ReadAfterWrite(op, rd) ==
    /\ access.op = rd
    /\ access.last.op = op
    /\ access.n = access.last.n
    /\ access.n \in 0..30

\* C15: writeX(n, v) followed by readX(n), n in 0..30, returns v, and the
\* write changes no other general register, SP, PC or flag; for n = 31
\* every write is discarded and every read returns 0, after any writes.
C15_RegisterReadBack ==
    /\ ReadAfterWrite("writeX", "readX") =>
          /\ access.err = ""
          /\ access.val = access.last.value
    /\ access.op = "writeX" /\ access.n \in 0..30 =>
          /\ access.err = ""
          /\ regs = [prev.regs EXCEPT !.x[access.n] = access.value]
    /\ access.op \in {"writeX", "writeW"} /\ access.n = 31 =>
          /\ access.err = ""
          /\ regs = prev.regs
    /\ access.op \in {"readX", "readW"} /\ access.n = 31 =>
          /\ access.err = ""
          /\ access.val = Zero64

\* X30 read back after a write, with X0, SP, PC and the flags holding
\* other values
C15_Witness ==
    /\ ReadAfterWrite("writeX", "readX")
    /\ access.n = 30
    /\ access.val = <<136, 119, 102, 85, 68, 51, 34, 17>>
    /\ regs.x[0] = <<16, 50, 84, 118, 152, 186, 220, 254>>
    /\ regs.sp = U64(4096)
    /\ regs.psr.N

(***************************************************************************)
(* C16                                                                     *)
(***************************************************************************)
\* The upper 32 bits of a 64-bit value are zero
UpperHalfZero(v) == \A i \in 5..8 : v[i] = 0

\* The last call executed an instruction that writes a destination, and
\* the destination is a W register of index 0..30
WDestCase ==
    /\ Fetched
    /\ Returned
    /\ LastMnem \in {MnMOV, MnADD, MnSUB, MnAND, MnEOR, MnMUL, MnLDR, MnLDRB}
    /\ Len(LastOps) >= 1
    /\ isWReg(upperCopy(LastOps[1].raw))
    /\ regIndex(LastOps[1].raw) \in 0..30

\* C16: a write of v to Wn followed by a read of Xn, n in 0..30, returns
\* v with the upper 32 bits zero whatever Xn held; and every instruction
\* with a W register as destination leaves the upper 32 bits of the
\* backing X register zero.
C16_WWriteZeroExtends ==
    /\ ReadAfterWrite("writeW", "readX") =>
          /\ access.err = ""
          /\ access.val = access.last.value
          /\ UpperHalfZero(access.val)
    /\ WDestCase => UpperHalfZero(regs.x[regIndex(LastOps[1].raw)])

\* MUL W3, X3, X3 with X3 = 2^64 - 1 before: X3 is 1 afterwards
C16_Witness ==
    /\ WDestCase
    /\ LastMnem = MnMUL
    /\ prev.regs.x[3] = Ones64
    /\ regs.x[3] = One64

(***************************************************************************)
(* C17                                                                     *)
(***************************************************************************)
\* The decimal number written by the digits d[i..], capped at 1000
RECURSIVE DecimalFrom(_, _, _)
DecimalFrom(d, i, acc) ==
    IF i > Len(d) THEN acc
    ELSE DecimalFrom(d, i + 1,
                     IF acc >= 100 THEN 1000
                     ELSE 10 * acc + (CHOOSE k \in 0..9 :
                                         d[i] = DigitChars[k + 1]))

\* The token is X or W followed by a number above 30
BadRegisterName(tok) ==
    LET u == upperCopy(trimCopy(tok))
    IN  /\ Len(u) >= 2
        /\ u[1] \in {"X", "W"}
        /\ \A i \in 2..Len(u) : \E k \in 1..10 : u[i] = DigitChars[k]
        /\ DecimalFrom(u, 2, 0) > 30

\* The last call executed an instruction one of whose operands names a
\* register above 30
NamesBadRegister ==
    /\ Fetched
    /\ \E i \in 1..Len(LastOps) : BadRegisterName(LastOps[i].raw)

\* The mnemonics whose branch of step looks at the operands
OperandMnemonics ==
    {MnMOV, MnADD, MnSUB, MnAND, MnEOR, MnMUL, MnCMP,
     MnLDR, MnLDRB, MnSTR, MnSTRB, MnB, MnBGT, MnBLE}

\* The exceptions that report an invalid register index
InvalidIndexErrors ==
    {"readX: invalid index", "writeX: invalid index",
     "writeW: invalid index"}

\* An accessor called with an index outside 0..31 fails with an
\* invalid-index error and leaves all registers unchanged
AccessorsRefuseBadIndex ==
    access.op # "none" /\ access.n \notin 0..31 =>
        /\ access.err \in InvalidIndexErrors
        /\ regs = prev.regs

\* C17 as stated: readX, writeX, readW and writeW called with an index
\* outside 0..31 fail with an invalid-index error and leave all registers
\* unchanged; a step whose instruction names a register Xn or Wn with
\* n > 30 fails with an error instead of reading or writing any register.
C17_BadRegisterStepFails ==
    /\ AccessorsRefuseBadIndex
    /\ NamesBadRegister =>
          /\ ret = "throw"
          /\ regs = prev.regs
          /\ stack = prev.stack

\* C17 amended: the accessors as stated; a step whose instruction names a
\* register Xn or Wn with n > 30 fails with an error and changes nothing
\* when its mnemonic is MOV, ADD, SUB, AND, EOR, MUL, CMP, LDR, LDRB, STR,
\* STRB, B, B.GT or B.LE; under RET, NOP and every other mnemonic the
\* operands are not looked at and the step completes without error and
\* without a change to X0..X30, SP, the flags or the stack.
C17_InvalidRegisterIndex ==
    /\ AccessorsRefuseBadIndex
    /\ NamesBadRegister /\ LastMnem \in OperandMnemonics =>
          /\ ret = "throw"
          /\ err # ""
          /\ regs = prev.regs
          /\ stack = prev.stack
          /\ pc = prev.pc
    /\ NamesBadRegister /\ LastMnem \notin OperandMnemonics =>
          /\ Returned
          /\ err = ""
          /\ regs.x = prev.regs.x
          /\ regs.sp = prev.regs.sp
          /\ regs.psr = prev.regs.psr
          /\ stack = prev.stack

\* STR X99, [SP] run by main after an instruction that set a register:
\* the step threw and the register file is as it was
C17_Witness ==
    /\ caller = "main"
    /\ NamesBadRegister
    /\ LastMnem = MnSTR
    /\ ret = "throw"
    /\ err # ""
    /\ prev.regs.x[0] # Zero64
    /\ regs = prev.regs

(***************************************************************************)
(* C18                                                                     *)
(***************************************************************************)
\* The mnemonics the engine implements
KnownMnemonics ==
    {MnNOP, MnMOV, MnADD, MnSUB, MnAND, MnEOR, MnMUL, MnCMP, MnLDR, MnLDRB,
     MnSTR, MnSTRB, MnB, MnBGT, MnBLE, MnRET}

\* C18: an instruction with any other mnemonic executes as a no-op
\* whatever its operands: the step does not fail, the next PC is pc + 4,
\* and registers, SP, flags and stack are unchanged.
C18_UnknownMnemonicIsNoOp ==
    Fetched /\ LastMnem \notin KnownMnemonics =>
        /\ Returned
        /\ pc = FallThrough
        /\ regs = [prev.regs EXCEPT !.pc = FallThrough]
        /\ stack = prev.stack

\* STP with three operands, one of them a memory operand outside the
\* stack, ran as a no-op with X0, the flags and a stack byte set
C18_Witness ==
    /\ Fetched
    /\ LastMnem = <<"S", "T", "P">>
    /\ Len(LastOps) = 3
    /\ ret = "true"
    /\ pc = FallThrough
    /\ regs.x[0] = U64(7)
    /\ regs.psr.C
    /\ stack.mem[1] = 7

(***************************************************************************)
(* C19                                                                     *)
(***************************************************************************)
\* The last call of step executed a CMP
CmpStep == Fetched /\ LastMnem = MnCMP

\* C19: the flags N, Z, C, V change only on CMP steps: every other step,
\* whatever its mnemonic and whether its result is zero, negative or
\* overflows, leaves all four flags as they were.
C19_FlagsChangeOnlyOnCmp ==
    ret # "none" /\ ~CmpStep => regs.psr = prev.regs.psr

\* An ADD overflowed from 0x7fffffffffffffff to the most negative value
\* while only Z was set, and Z alone is still set
C19_Witness ==
    /\ Fetched
    /\ LastMnem = MnADD
    /\ ret = "true"
    /\ prev.regs.x[2] = <<255, 255, 255, 255, 255, 255, 255, 127>>
    /\ regs.x[2] = <<0, 0, 0, 0, 0, 0, 0, 128>>
    /\ prev.regs.psr = [N |-> FALSE, Z |-> TRUE, C |-> FALSE, V |-> FALSE]
    /\ regs.psr = prev.regs.psr

(***************************************************************************)
(* C20                                                                     *)
(***************************************************************************)
\* C20: a CMP step changes only the flags and the PC (pc + 4): no general
\* register, not SP and no stack byte is modified, whether the operands
\* are register/register or register/immediate, X or W.
C20_CmpChangesOnlyFlagsAndPc ==
    CmpCase =>
        /\ pc = FallThrough
        /\ regs = [prev.regs EXCEPT !.pc = FallThrough, !.psr = regs.psr]
        /\ stack = prev.stack

\* CMP W0, W1 with X0 = 5 and X1 = 3 changed the flags and left X0, X1
\* and the stack as they were
C20_Witness ==
    /\ CmpCase
    /\ CmpWidth(LastOps) = 32
    /\ LastOps[2].type = "Register"
    /\ prev.regs.x[0] = U64(5)
    /\ prev.regs.x[1] = U64(3)
    /\ regs.x = prev.regs.x
    /\ regs.sp = prev.regs.sp
    /\ regs.psr # prev.regs.psr
    /\ pc = FallThrough

(***************************************************************************)
(* C21                                                                     *)
(***************************************************************************)
\* The last call of step executed a STR or STRB
StoreStep == Fetched /\ LastMnem \in {MnSTR, MnSTRB}

\* The stack byte at offset k has an address in [a, a + w), in unbounded
\* integers
InWindow(st, k, a, w) ==
    /\ UnsignedGe(Add64(st.base, U64(k)), a, 8)
    /\ UnsignedGt(U64(w), Sub64(Add64(st.base, U64(k)), a))

\* The stack bytes after storing the low w bytes of v at address a,
\* little-endian: byte a + i holds bits 8i..8i+7 of v
Stored(st, a, w, v) ==
    [st EXCEPT !.mem =
        [k \in DOMAIN st.mem |->
            IF InWindow(st, k, a, w)
            THEN v[Low16(Sub64(Add64(st.base, U64(k)), a)) + 1]
            ELSE st.mem[k]]]

\* C21: stack bytes change only on STR/STRB steps, and a store of width w
\* at address a sets byte a + i to byte i of the source register and
\* changes no stack byte outside [a, a + w), no register and no flag.
C21_StoresChangeOnlyTheirWindow ==
    /\ ret # "none" /\ ~StoreStep => stack = prev.stack
    /\ StoreStep /\ AccessCase /\ Returned =>
          /\ stack = Stored(prev.stack, AccessAddr, AccessWidth,
                            OperandValue(LastOps[1], prev.regs))
          /\ regs = [prev.regs EXCEPT !.pc = FallThrough]

\* The same, for stores whose window lies inside the stack
C21_InBoundsStores ==
    /\ ret # "none" /\ ~StoreStep => stack = prev.stack
    /\ StoreStep /\ AccessCase /\ Returned
        /\ InStack(prev.stack, AccessAddr, AccessWidth) =>
          /\ stack = Stored(prev.stack, AccessAddr, AccessWidth,
                            OperandValue(LastOps[1], prev.regs))
          /\ regs = [prev.regs EXCEPT !.pc = FallThrough]

(***************************************************************************)
(* C22                                                                     *)
(***************************************************************************)
\* main has left its loop, or never entered it
Halted ==
    phase \in {"max_steps", "finished", "unknown_pc", "error", "aborted",
               "empty", "build_error"}

\* The calls of step main has made: every iteration but one that left the
\* loop before the call
StepCalls ==
    IF phase \in {"max_steps", "unknown_pc"} THEN steps - 1
    ELSE IF phase = "finished" /\ ret # "false" THEN steps - 1
    ELSE steps

\* C22: main calls step at most kMaxSteps times and then aborts, so every
\* run terminates, also the backward-branch loop that never reaches the
\* end of the program; at the ceiling main leaves its loop and step has
\* raised no error.
C22_StepCeiling ==
    /\ [](/\ StepCalls <= kMaxSteps
          /\ phase = "max_steps" =>
                /\ StepCalls = kMaxSteps
                /\ ret = "true"
                /\ err = "")
    /\ <>Halted

\* The loop LOOP: ADD X0,X0,#1 / B LOOP was stopped after 100000 calls of
\* step, 50000 of them the ADD
C22_Witness ==
    /\ phase = "max_steps"
    /\ Len(prog.code) = 2
    /\ regs.x[0] = U64(50000)
    /\ pc = Zero64
    /\ ret = "true"

(***************************************************************************)
(* C23                                                                     *)
(***************************************************************************)
\* What each memory operand of AddrOperands says: its base (SP, the zero
\* register, register bn, or no register), its offset (none, the immediate
\* ov, the X or W register on, the zero register, or no register) and the
\* s of its LSL #s
AddrForms ==
    {[text |-> <<"[","S","P","]">>,
      bk |-> "sp", bn |-> 0, ok |-> "none", on |-> 0, ov |-> <<0, 0, 0, 0, 0, 0, 0, 0>>, s |-> 0],
     [text |-> <<"[","s","p",","," ","#","8","]">>,
      bk |-> "sp", bn |-> 0, ok |-> "imm", on |-> 0, ov |-> <<8, 0, 0, 0, 0, 0, 0, 0>>, s |-> 0],
     [text |-> <<"[","S","P",","," ","1","6","]">>,
      bk |-> "sp", bn |-> 0, ok |-> "imm", on |-> 0, ov |-> <<16, 0, 0, 0, 0, 0, 0, 0>>, s |-> 0],
     [text |-> <<"[","S","P",","," ","0","x","2","0","]">>,
      bk |-> "sp", bn |-> 0, ok |-> "imm", on |-> 0, ov |-> <<32, 0, 0, 0, 0, 0, 0, 0>>, s |-> 0],
     [text |-> <<"[","S","P",","," ","#","0","x","2","8","]">>,
      bk |-> "sp", bn |-> 0, ok |-> "imm", on |-> 0, ov |-> <<40, 0, 0, 0, 0, 0, 0, 0>>, s |-> 0],
     [text |-> <<"[","S","P",","," ","#","8",","," ","L","S","L"," ","#","2","]">>,
      bk |-> "sp", bn |-> 0, ok |-> "imm", on |-> 0, ov |-> <<8, 0, 0, 0, 0, 0, 0, 0>>, s |-> 0],
     [text |-> <<"[","X","Z","R",","," ","#","0","x","f","8","]">>,
      bk |-> "zero", bn |-> 0, ok |-> "imm", on |-> 0, ov |-> <<248, 0, 0, 0, 0, 0, 0, 0>>, s |-> 0],
     [text |-> <<"[","w","z","r",","," ","6","4","]">>,
      bk |-> "zero", bn |-> 0, ok |-> "imm", on |-> 0, ov |-> <<64, 0, 0, 0, 0, 0, 0, 0>>, s |-> 0],
     [text |-> <<"[","X","1","]">>,
      bk |-> "reg", bn |-> 1, ok |-> "none", on |-> 0, ov |-> <<0, 0, 0, 0, 0, 0, 0, 0>>, s |-> 0],
     [text |-> <<"["," ","x","1"," ",","," ","#","-","8"," ","]">>,
      bk |-> "reg", bn |-> 1, ok |-> "imm", on |-> 0, ov |-> <<248, 255, 255, 255, 255, 255, 255, 255>>, s |-> 0],
     [text |-> <<"[","W","3","]">>,
      bk |-> "reg", bn |-> 3, ok |-> "none", on |-> 0, ov |-> <<0, 0, 0, 0, 0, 0, 0, 0>>, s |-> 0],
     [text |-> <<"[","X","3",","," ","#","-","0","x","1","0","0","0","0","0","0","0","0","]">>,
      bk |-> "reg", bn |-> 3, ok |-> "imm", on |-> 0, ov |-> <<0, 0, 0, 0, 255, 255, 255, 255>>, s |-> 0],
     [text |-> <<"[","X","3",","," ","#","-","4","2","9","4","9","6","7","2","9","6","]">>,
      bk |-> "reg", bn |-> 3, ok |-> "imm", on |-> 0, ov |-> <<0, 0, 0, 0, 255, 255, 255, 255>>, s |-> 0],
     [text |-> <<"[","X","1",","," ","X","2","]">>,
      bk |-> "reg", bn |-> 1, ok |-> "x", on |-> 2, ov |-> <<0, 0, 0, 0, 0, 0, 0, 0>>, s |-> 0],
     [text |-> <<"[","X","1",","," ","W","2","]">>,
      bk |-> "reg", bn |-> 1, ok |-> "w", on |-> 2, ov |-> <<0, 0, 0, 0, 0, 0, 0, 0>>, s |-> 0],
     [text |-> <<"[","X","1",","," ","w","2",","," ","l","s","l"," ","#","2","]">>,
      bk |-> "reg", bn |-> 1, ok |-> "w", on |-> 2, ov |-> <<0, 0, 0, 0, 0, 0, 0, 0>>, s |-> 2],
     [text |-> <<"[","X","1",","," ","X","1",","," ","L","S","L"," ","#","1","]">>,
      bk |-> "reg", bn |-> 1, ok |-> "x", on |-> 1, ov |-> <<0, 0, 0, 0, 0, 0, 0, 0>>, s |-> 1],
     [text |-> <<"[","X","1",","," ","X","Z","R",","," ","L","S","L"," ","#","3","]">>,
      bk |-> "reg", bn |-> 1, ok |-> "zero", on |-> 0, ov |-> <<0, 0, 0, 0, 0, 0, 0, 0>>, s |-> 3],
     [text |-> <<"[","X","1",","," ","W","Z","R","]">>,
      bk |-> "reg", bn |-> 1, ok |-> "zero", on |-> 0, ov |-> <<0, 0, 0, 0, 0, 0, 0, 0>>, s |-> 0],
     [text |-> <<"[","X","1",","," ","W","2",","," ","L","S","L"," ","#","6","3","]">>,
      bk |-> "reg", bn |-> 1, ok |-> "w", on |-> 2, ov |-> <<0, 0, 0, 0, 0, 0, 0, 0>>, s |-> 63],
     [text |-> <<"[","X","1",","," ","W","2",","," ","L","S","L"," ","#","6","4","]">>,
      bk |-> "reg", bn |-> 1, ok |-> "w", on |-> 2, ov |-> <<0, 0, 0, 0, 0, 0, 0, 0>>, s |-> 64],
     [text |-> <<"[","X","1",","," ","X","1",","," ","L","S","L"," ","#","6","5","]">>,
      bk |-> "reg", bn |-> 1, ok |-> "x", on |-> 1, ov |-> <<0, 0, 0, 0, 0, 0, 0, 0>>, s |-> 65],
     [text |-> <<"[","F","O","O","]">>,
      bk |-> "bad", bn |-> 0, ok |-> "none", on |-> 0, ov |-> <<0, 0, 0, 0, 0, 0, 0, 0>>, s |-> 0],
     [text |-> <<"[","X","3","1",","," ","#","8","]">>,
      bk |-> "bad", bn |-> 0, ok |-> "imm", on |-> 0, ov |-> <<8, 0, 0, 0, 0, 0, 0, 0>>, s |-> 0],
     [text |-> <<"[","X","1",","," ","Q","2","]">>,
      bk |-> "reg", bn |-> 1, ok |-> "bad", on |-> 0, ov |-> <<0, 0, 0, 0, 0, 0, 0, 0>>, s |-> 0],
     [text |-> <<"[","X","1",","," ","X","9","9",","," ","L","S","L"," ","#","1","]">>,
      bk |-> "reg", bn |-> 1, ok |-> "bad", on |-> 0, ov |-> <<0, 0, 0, 0, 0, 0, 0, 0>>, s |-> 1]}

\* The exceptions that report a base or index that is no register
InvalidOperandErrors ==
    {"invalid base register in memory operand",
     "invalid index in memory operand"}

\* v * 2^n modulo 2^64
ShiftedLeft(v, n) == IF n >= 64 THEN Zero64 ELSE Shl64(v, n)

\* v shifted left by n modulo 64
ShiftedLeftMod64(v, n) == Shl64(v, n % 64)

\* (base value + offset) mod 2^64 of a form, the index register shifted
\* by Shift
FormAddress(f, r, Shift(_, _)) ==
    LET b == IF f.bk = "sp" THEN r.sp
             ELSE IF f.bk = "zero" THEN Zero64
             ELSE r.x[f.bn]
        o == IF f.ok = "none" THEN Zero64
             ELSE IF f.ok = "imm" THEN f.ov
             ELSE IF f.ok = "zero" THEN Shift(Zero64, f.s)
             ELSE IF f.ok = "w" THEN Shift(Truncated(r.x[f.on], 32), f.s)
             ELSE Shift(r.x[f.on], f.s)
    IN  Add64(b, o)

\* The last call of step executed a store of a register through the
\* operand of form f
FormStored(f) ==
    /\ StoreStep
    /\ Len(LastOps) = 2
    /\ NamesRegister(LastOps[1])
    /\ LastOps[2].type = "Memory"
    /\ LastOps[2].raw = f.text

\* A store through a memory operand acts at the address the operand's
\* form gives, and fails when base or index is no register
AddressedAs(Forms, Shift(_, _)) ==
    \A f \in Forms :
        FormStored(f) =>
            IF f.bk = "bad" \/ f.ok = "bad"
            THEN /\ ret = "throw"
                 /\ err \in InvalidOperandErrors
            ELSE IF InStack(prev.stack, FormAddress(f, prev.regs, Shift),
                            AccessWidth)
            THEN /\ Returned
                 /\ stack = Stored(prev.stack,
                                   FormAddress(f, prev.regs, Shift),
                                   AccessWidth,
                                   OperandValue(LastOps[1], prev.regs))
            ELSE /\ ret = "throw"
                 /\ err \in MemoryBoundsErrors

\* C23: the effective address of [base{, off{, LSL #s}}] is (base value +
\* offset) mod 2^64: base SP, 0 for XZR/WZR, the full register for Xn/Wn;
\* offset 0, the immediate, or the index register (Wm zero-extended,
\* XZR/WZR as 0) shifted left by s; a base or index that is no register
\* makes the step fail with an invalid-operand error.
C23_EffectiveAddress == AddressedAs(AddrForms, ShiftedLeft)

\* The form's immediate is a negative hex number
NegativeHex(f) ==
    \E i \in 1..(Len(f.text) - 2) :
        SubSeq(f.text, i, i + 2) = <<"-", "0", "x">>

\* The same with the index shifted left by s modulo 64, for the forms
\* other than a negative hex immediate
C23_ShiftModulo64 ==
    AddressedAs({f \in AddrForms : ~NegativeHex(f)}, ShiftedLeftMod64)

\* A negative hex immediate counts as 0
C23_NegativeHexIsZero ==
    AddressedAs({[f EXCEPT !.ov = Zero64] : f \in {g \in AddrForms : NegativeHex(g)}}, ShiftedLeft)

(***************************************************************************)
(* C24                                                                     *)
(***************************************************************************)
\* The last call of step completed a load into a register
LoadCase ==
    /\ AccessCase
    /\ LastMnem \in {MnLDR, MnLDRB}
    /\ Returned

\* The w stack bytes at [a, a + w) as a little-endian number, the bits
\* above them zero
BytesAt(st, a, w) ==
    [i \in 1..8 |->
        IF i <= w THEN st.mem[Low16(Sub64(a, st.base)) + i - 1] ELSE 0]

\* The registers after value v was written to the register tok names:
\* nothing changes for XZR/WZR
WithRegister(r, tok, v) ==
    LET n == regIndex(tok)
    IN  IF n = XZR_INDEX THEN r
        ELSE IF n = XZR_INDEX + 1 THEN [r EXCEPT !.sp = v]
        ELSE [r EXCEPT !.x[n] = v]

\* C24: LDR Xt loads the 8 bytes at [a, a + 8) little-endian, LDR Wt the 4
\* bytes at [a, a + 4) with the upper 32 bits of the register cleared,
\* LDRB the byte at a with all higher bits cleared for X and W
\* destinations; no load changes a stack byte, a flag, or a register other
\* than Rt and PC.
C24_LoadsZeroExtend ==
    /\ LoadCase => stack = prev.stack /\ regs.psr = prev.regs.psr
    /\ LoadCase /\ InStack(prev.stack, AccessAddr, AccessWidth) =>
          regs = [WithRegister(prev.regs, LastOps[1].raw,
                               BytesAt(prev.stack, AccessAddr, AccessWidth))
                     EXCEPT !.pc = FallThrough]

\* LDR W6 of the bytes 00 00 ff ee at SP + 14..17 into X6 = 2^64 - 1: X6
\* holds 0xeeff0000 afterwards, under flags set by a CMP
C24_Witness ==
    /\ LoadCase
    /\ LastMnem = MnLDR
    /\ AccessWidth = 4
    /\ AccessAddr = U64(14)
    /\ prev.regs.x[6] = Ones64
    /\ regs.x[6] = <<0, 0, 255, 238, 0, 0, 0, 0>>
    /\ prev.regs.psr.N
    /\ stack.mem[23] = 136

(***************************************************************************)
(* C25                                                                     *)
(***************************************************************************)
\* The number an immediate "#<value>" denotes as a two's-complement word:
\* an optional sign, then decimal or 0x hex digits
SignedImmediate(raw) ==
    LET t   == Substr(raw, 1)
        neg == t # <<>> /\ t[1] = "-"
        m   == IF neg THEN Substr(t, 1) ELSE t
        mag == IF StartsWith(upperCopy(m), <<"0", "X">>)
               THEN stoull(m, 16).val ELSE stoull(m, 10).val
    IN  IF neg THEN Neg64(mag) ELSE mag

\* The value a source operand contributes
SourceValue(op, r) ==
    IF op.type = "Immediate" THEN SignedImmediate(op.raw)
    ELSE RegisterValue(op, r)

\* The last call of step completed a MOV with two, or an ADD, SUB, AND,
\* EOR, MUL with three operands: a destination and sources that are
\* registers, the last one a register or an immediate
ComputeCase ==
    /\ Fetched
    /\ Returned
    /\ \/ LastMnem = MnMOV /\ Len(LastOps) = 2
       \/ LastMnem \in {MnADD, MnSUB, MnAND, MnEOR, MnMUL}
            /\ Len(LastOps) = 3
            /\ NamesRegister(LastOps[2])
    /\ NamesRegister(LastOps[1])
    /\ \/ NamesRegister(LastOps[Len(LastOps)])
       \/ LastOps[Len(LastOps)].type = "Immediate"

\* Rn op Rm modulo 2^64, or the source of a MOV
Computed(mn, ops, r) ==
    LET b == SourceValue(ops[Len(ops)], r)
        a == SourceValue(ops[Len(ops) - 1], r)
    IN  IF mn = MnMOV THEN b
        ELSE IF mn = MnADD THEN Add64(a, b)
        ELSE IF mn = MnSUB THEN Sub64(a, b)
        ELSE IF mn = MnAND THEN And64(a, b)
        ELSE IF mn = MnEOR THEN Xor64(a, b)
        ELSE Mul64(a, b)

\* Only Rd and PC change, and Rd holds the result reduced to the width
\* of Rd
WritesResult ==
    /\ regs = [WithRegister(prev.regs, LastOps[1].raw,
                  Truncated(Computed(LastMnem, LastOps, prev.regs),
                            IF isWReg(upperCopy(LastOps[1].raw))
                            THEN 32 ELSE 64))
                 EXCEPT !.pc = FallThrough]
    /\ stack = prev.stack

\* C25: MOV writes the source value and ADD/SUB/AND/EOR/MUL write Rn op Rm
\* modulo 2^64 for an X and modulo 2^32, zero-extended, for a W
\* destination; a W source contributes its low 32 bits, XZR/WZR 0, an
\* immediate its signed value in two's complement; only Rd and PC change.
C25_MovAndArithmetic == ComputeCase => WritesResult

\* The last operand is a hex immediate with a minus sign
NegativeHexImmediate ==
    /\ LastOps[Len(LastOps)].type = "Immediate"
    /\ StartsWith(upperCopy(LastOps[Len(LastOps)].raw), <<"#", "-", "0", "X">>)

\* The same for every immediate but a hex number with a minus sign
C25_ExceptNegativeHex ==
    ComputeCase /\ ~NegativeHexImmediate => WritesResult

\* With a negative hex immediate the instruction acts as with #0
C25_NegativeHexIsZero ==
    ComputeCase /\ NegativeHexImmediate =>
        /\ stack = prev.stack
        /\ regs.pc = FallThrough
        /\ LastMnem = MnMOV => regs.x[0] = Zero64
        /\ LastMnem = MnADD => regs.x[0] = prev.regs.x[1]

(***************************************************************************)
(* C26                                                                     *)
(***************************************************************************)
\* What each line of DecodeLines holds: its mnemonic, the types of its
\* operands, and whether its immediates are numbers
DecodeForms ==
    {[text |-> <<"A","D","D"," ","#","z","z">>,
      mn |-> <<"A","D","D">>, types |-> <<"Immediate">>, number |-> FALSE],
     [text |-> <<"S","T","R"," ","X","0",","," ","#","9","9","9","9","9","9","9","9","9","9","9","9","9","9","9","9","9","9","9","9">>,
      mn |-> <<"S","T","R">>, types |-> <<"Register", "Immediate">>, number |-> FALSE],
     [text |-> <<"A","D","D"," ","X","0",","," ","X","1",","," ","X","2">>,
      mn |-> <<"A","D","D">>, types |-> <<"Register", "Register", "Register">>, number |-> TRUE],
     [text |-> <<"a","d","d"," ","x","0",","," ","x","1",","," ","#","5">>,
      mn |-> <<"A","D","D">>, types |-> <<"Register", "Register", "Immediate">>, number |-> TRUE],
     [text |-> <<"A","d","d"," ","W","0",","," ","W","Z","R",","," ","#","-","1">>,
      mn |-> <<"A","D","D">>, types |-> <<"Register", "Register", "Immediate">>, number |-> TRUE],
     [text |-> <<"A","D","D"," ","X","9","9",","," ","S","P",","," ","X","0">>,
      mn |-> <<"A","D","D">>, types |-> <<"Register", "Register", "Register">>, number |-> TRUE],
     [text |-> <<"A","D","D"," ","X","0",","," ","X","1">>,
      mn |-> <<"A","D","D">>, types |-> <<"Register", "Register">>, number |-> TRUE],
     [text |-> <<"A","D","D"," ","X","0",","," ","X","1",","," ","X","2",","," ","X","3">>,
      mn |-> <<"A","D","D">>, types |-> <<"Register", "Register", "Register", "Register">>, number |-> TRUE],
     [text |-> <<"A","D","D">>,
      mn |-> <<"A","D","D">>, types |-> <<>>, number |-> TRUE],
     [text |-> <<"L",":"," ","A","D","D"," ","X","0">>,
      mn |-> <<"A","D","D">>, types |-> <<"Register">>, number |-> TRUE],
     [text |-> <<"A","D","D"," ","#","1",","," ","X","1",","," ","X","2">>,
      mn |-> <<"A","D","D">>, types |-> <<"Immediate", "Register", "Register">>, number |-> TRUE],
     [text |-> <<"A","D","D"," ","X","0",","," ","f","o","o",","," ","X","2">>,
      mn |-> <<"A","D","D">>, types |-> <<"Register", "Label", "Register">>, number |-> TRUE],
     [text |-> <<"A","D","D"," ","X","0",","," ","[","S","P","]",","," ","#","1">>,
      mn |-> <<"A","D","D">>, types |-> <<"Register", "Memory", "Immediate">>, number |-> TRUE],
     [text |-> <<"A","D","D"," ","X","0",","," ","X","1",","," ","[","S","P","]">>,
      mn |-> <<"A","D","D">>, types |-> <<"Register", "Register", "Memory">>, number |-> TRUE],
     [text |-> <<"a","d","d"," ","x","0",","," ","x","1",","," ","f","o","o">>,
      mn |-> <<"A","D","D">>, types |-> <<"Register", "Register", "Label">>, number |-> TRUE],
     [text |-> <<"A","D","D"," ","X","0",","," ","X","1",","," ","#","z","z">>,
      mn |-> <<"A","D","D">>, types |-> <<"Register", "Register", "Immediate">>, number |-> FALSE],
     [text |-> <<"L","D","R"," ","X","0",","," ","[","S","P","]">>,
      mn |-> <<"L","D","R">>, types |-> <<"Register", "Memory">>, number |-> TRUE],
     [text |-> <<"l","d","r"," ","w","1",","," ","[","X","0",","," ","#","8","]">>,
      mn |-> <<"L","D","R">>, types |-> <<"Register", "Memory">>, number |-> TRUE],
     [text |-> <<"L","D","R"," ","X","9","9",","," ","[","f","o","o","]">>,
      mn |-> <<"L","D","R">>, types |-> <<"Register", "Memory">>, number |-> TRUE],
     [text |-> <<"L","D","R">>,
      mn |-> <<"L","D","R">>, types |-> <<>>, number |-> TRUE],
     [text |-> <<"L","D","R"," ","X","0">>,
      mn |-> <<"L","D","R">>, types |-> <<"Register">>, number |-> TRUE],
     [text |-> <<"L","D","R"," ","X","0",","," ","[","S","P","]",","," ","#","8">>,
      mn |-> <<"L","D","R">>, types |-> <<"Register", "Memory", "Immediate">>, number |-> TRUE],
     [text |-> <<"L","D","R"," ","[","S","P","]",","," ","X","0">>,
      mn |-> <<"L","D","R">>, types |-> <<"Memory", "Register">>, number |-> TRUE],
     [text |-> <<"L","D","R"," ","X","0",","," ","X","1">>,
      mn |-> <<"L","D","R">>, types |-> <<"Register", "Register">>, number |-> TRUE],
     [text |-> <<"l","d","r"," ","x","0",","," ","#","8">>,
      mn |-> <<"L","D","R">>, types |-> <<"Register", "Immediate">>, number |-> TRUE],
     [text |-> <<"L","D","R"," ","f","o","o",","," ","[","S","P","]">>,
      mn |-> <<"L","D","R">>, types |-> <<"Label", "Memory">>, number |-> TRUE],
     [text |-> <<"L","D","R"," ","X","0",","," ","[","S","P">>,
      mn |-> <<"L","D","R">>, types |-> <<"Register", "Label">>, number |-> TRUE],
     [text |-> <<"L","D","R","B"," ","X","0">>,
      mn |-> <<"L","D","R","B">>, types |-> <<"Register">>, number |-> TRUE],
     [text |-> <<"l","d","r","b"," ","#","1",","," ","#","2",","," ","#","3">>,
      mn |-> <<"L","D","R","B">>, types |-> <<"Immediate", "Immediate", "Immediate">>, number |-> TRUE],
     [text |-> <<"S","T","R">>,
      mn |-> <<"S","T","R">>, types |-> <<>>, number |-> TRUE],
     [text |-> <<"S","U","B"," ","X","0">>,
      mn |-> <<"S","U","B">>, types |-> <<"Register">>, number |-> TRUE],
     [text |-> <<"M","O","V"," ","[","S","P","]",","," ","[","S","P","]",","," ","f","o","o",","," ","#","1">>,
      mn |-> <<"M","O","V">>, types |-> <<"Memory", "Memory", "Label", "Immediate">>, number |-> TRUE],
     [text |-> <<"B">>,
      mn |-> <<"B">>, types |-> <<>>, number |-> TRUE],
     [text |-> <<"C","M","P"," ","[","X","0","]",","," ","f","o","o",","," ","b","a","r">>,
      mn |-> <<"C","M","P">>, types |-> <<"Memory", "Label", "Label">>, number |-> TRUE],
     [text |-> <<"A","D","D","S"," ","X","0">>,
      mn |-> <<"A","D","D","S">>, types |-> <<"Register">>, number |-> TRUE],
     [text |-> <<"F","O","O"," ","X","0",","," ","X","1",","," ","[","a",","," ","b","]",","," ","#","3">>,
      mn |-> <<"F","O","O">>, types |-> <<"Register", "Register", "Memory", "Immediate">>, number |-> TRUE],
     [text |-> <<"M","O","V"," ","X","0",","," ","#","z","z">>,
      mn |-> <<"M","O","V">>, types |-> <<"Register", "Immediate">>, number |-> FALSE],
     [text |-> <<"F","O","O"," ","#">>,
      mn |-> <<"F","O","O">>, types |-> <<"Immediate">>, number |-> FALSE]}

\* ADD takes exactly Register, Register, Register or Immediate
AddOperandsOk(types) ==
    /\ Len(types) = 3
    /\ types[1] = "Register"
    /\ types[2] = "Register"
    /\ types[3] \in {"Register", "Immediate"}

\* LDR takes exactly Register, Memory
LdrOperandsOk(types) ==
    /\ Len(types) = 2
    /\ types[1] = "Register"
    /\ types[2] = "Memory"

\* The validator of the mnemonic refuses the count or the types
ValidatorRefuses(f) ==
    \/ f.mn = MnADD /\ ~AddOperandsOk(f.types)
    \/ f.mn = MnLDR /\ ~LdrOperandsOk(f.types)

\* What the validators throw, and what std::stoll throws for an immediate
\* that is no number or too large a number
ValidatorErrors(mn) ==
    IF mn = MnADD
    THEN {"ADD expects 3 operands",
          "ADD first two operands must be registers",
          "ADD third operand must be register or immediate"}
    ELSE {"LDR expects 2 operands",
          "LDR destination must be a register",
          "LDR address must be a memory operand like [Xn{,#imm}]"}
NumberErrors == {"invalid_argument", "out_of_range"}

\* buildFileProgram has just read the line of form f
JustRead(f) ==
    /\ caller = "main"
    /\ phase \in {"build", "build_error"}
    /\ src_line >= 1
    /\ src[src_line] = f.text

\* The last instruction of the program under construction
NewestInst == prog.code[Len(prog.code)].inst

\* The line of form f became the newest instruction of the program
Accepted(f) ==
    /\ phase = "build"
    /\ Len(prog.code) = instrIndex
    /\ instrIndex >= 1
    /\ NewestInst.mnem = f.mn
    /\ [i \in 1..Len(NewestInst.operands) |->
           NewestInst.operands[i].type] = f.types

\* The build ended without a program and nothing was run
BuildAborted ==
    /\ phase = "build_error"
    /\ prog = EmptyProgram
    /\ steps = 0
    /\ ret = "none"
    /\ regs = NewRegisters

(***************************************************************************)
(* C27                                                                     *)
(***************************************************************************)
\* What each line of TokenLines decodes to: no instruction, or a mnemonic
\* and the class, text and value of each non-empty operand token
TokenForms ==
    {[text |-> <<"f","o","o","","X","1",",","","#","2","",","," ","[","S","P",",","","#","8","]">>,
      inst |-> TRUE, mn |-> <<"F","O","O">>,
      ops |-> <<[type |-> "Register", raw |-> <<"X","1">>, imm |-> U64(0)],
           [type |-> "Immediate", raw |-> <<"#","2">>, imm |-> U64(2)],
           [type |-> "Memory", raw |-> <<"[","S","P",",","","#","8","]">>, imm |-> U64(0)]>>],
     [text |-> <<"L","D","R"," ","X","0",","," ","[","S","P",","," ","#","8","]">>,
      inst |-> TRUE, mn |-> <<"L","D","R">>,
      ops |-> <<[type |-> "Register", raw |-> <<"X","0">>, imm |-> U64(0)],
           [type |-> "Memory", raw |-> <<"[","S","P",","," ","#","8","]">>, imm |-> U64(0)]>>],
     [text |-> <<"F","O","O"," ","X","0",",","[","X","1",",","#","8","]",",","#","3">>,
      inst |-> TRUE, mn |-> <<"F","O","O">>,
      ops |-> <<[type |-> "Register", raw |-> <<"X","0">>, imm |-> U64(0)],
           [type |-> "Memory", raw |-> <<"[","X","1",",","#","8","]">>, imm |-> U64(0)],
           [type |-> "Immediate", raw |-> <<"#","3">>, imm |-> U64(3)]>>],
     [text |-> <<"s","t","r"," ","x","1",","," ","[","X","1",","," ","X","2",","," ","L","S","L"," ","#","3","]",","," ","l","b","l">>,
      inst |-> TRUE, mn |-> <<"S","T","R">>,
      ops |-> <<[type |-> "Register", raw |-> <<"x","1">>, imm |-> U64(0)],
           [type |-> "Memory", raw |-> <<"[","X","1",","," ","X","2",","," ","L","S","L"," ","#","3","]">>, imm |-> U64(0)],
           [type |-> "Label", raw |-> <<"l","b","l">>, imm |-> U64(0)]>>],
     [text |-> <<"F","O","O"," ","[","[","a",",","b","]",",","c","]",","," ","d">>,
      inst |-> TRUE, mn |-> <<"F","O","O">>,
      ops |-> <<[type |-> "Memory", raw |-> <<"[","[","a",",","b","]",",","c","]">>, imm |-> U64(0)],
           [type |-> "Label", raw |-> <<"d">>, imm |-> U64(0)]>>],
     [text |-> <<"F","O","O"," ","a","]",","," ","b",","," ","[","c",","," ","d">>,
      inst |-> TRUE, mn |-> <<"F","O","O">>,
      ops |-> <<[type |-> "Label", raw |-> <<"a","]">>, imm |-> U64(0)],
           [type |-> "Label", raw |-> <<"b">>, imm |-> U64(0)],
           [type |-> "Label", raw |-> <<"[","c",","," ","d">>, imm |-> U64(0)]>>],
     [text |-> <<"F","O","O"," ","[","a",","," ","b","]",","," ","[","c",","," ","d","]",","," ","e">>,
      inst |-> TRUE, mn |-> <<"F","O","O">>,
      ops |-> <<[type |-> "Memory", raw |-> <<"[","a",","," ","b","]">>, imm |-> U64(0)],
           [type |-> "Memory", raw |-> <<"[","c",","," ","d","]">>, imm |-> U64(0)],
           [type |-> "Label", raw |-> <<"e">>, imm |-> U64(0)]>>],
     [text |-> <<"F","O","O"," ","#","5",","," ","#","-","3",","," ","#","0","x","1","F",","," ","#","0","X","f","f">>,
      inst |-> TRUE, mn |-> <<"F","O","O">>,
      ops |-> <<[type |-> "Immediate", raw |-> <<"#","5">>, imm |-> U64(5)],
           [type |-> "Immediate", raw |-> <<"#","-","3">>, imm |-> Neg64(U64(3))],
           [type |-> "Immediate", raw |-> <<"#","0","x","1","F">>, imm |-> U64(31)],
           [type |-> "Immediate", raw |-> <<"#","0","X","f","f">>, imm |-> U64(255)]>>],
     [text |-> <<"F","O","O"," ","s","p",","," ","x","z","r",","," ","W","z","r",","," ","x","3","0",","," ","w","0","0","7",","," ","X","9","9">>,
      inst |-> TRUE, mn |-> <<"F","O","O">>,
      ops |-> <<[type |-> "Register", raw |-> <<"s","p">>, imm |-> U64(0)],
           [type |-> "Register", raw |-> <<"x","z","r">>, imm |-> U64(0)],
           [type |-> "Register", raw |-> <<"W","z","r">>, imm |-> U64(0)],
           [type |-> "Register", raw |-> <<"x","3","0">>, imm |-> U64(0)],
           [type |-> "Register", raw |-> <<"w","0","0","7">>, imm |-> U64(0)],
           [type |-> "Register", raw |-> <<"X","9","9">>, imm |-> U64(0)]>>],
     [text |-> <<"F","O","O"," ","X",","," ","W",","," ","X","X","1",","," ","X","1","a",","," ","S","P","x",","," ","Y","3",","," ","1","X",","," ","x","-","1">>,
      inst |-> TRUE, mn |-> <<"F","O","O">>,
      ops |-> <<[type |-> "Label", raw |-> <<"X">>, imm |-> U64(0)],
           [type |-> "Label", raw |-> <<"W">>, imm |-> U64(0)],
           [type |-> "Label", raw |-> <<"X","X","1">>, imm |-> U64(0)],
           [type |-> "Label", raw |-> <<"X","1","a">>, imm |-> U64(0)],
           [type |-> "Label", raw |-> <<"S","P","x">>, imm |-> U64(0)],
           [type |-> "Label", raw |-> <<"Y","3">>, imm |-> U64(0)],
           [type |-> "Label", raw |-> <<"1","X">>, imm |-> U64(0)],
           [type |-> "Label", raw |-> <<"x","-","1">>, imm |-> U64(0)]>>],
     [text |-> <<"F","O","O"," "," "," ","[","S","P","]"," ",","," "," ","["," ","X","0"," ","]"," "," ",","," "," ","#","7"," "," ">>,
      inst |-> TRUE, mn |-> <<"F","O","O">>,
      ops |-> <<[type |-> "Memory", raw |-> <<"[","S","P","]">>, imm |-> U64(0)],
           [type |-> "Memory", raw |-> <<"["," ","X","0"," ","]">>, imm |-> U64(0)],
           [type |-> "Immediate", raw |-> <<"#","7">>, imm |-> U64(7)]>>],
     [text |-> <<" "," ","m","o","v","\t","X","1"," ",",","\t","l","o","o","p">>,
      inst |-> TRUE, mn |-> <<"M","O","V">>,
      ops |-> <<[type |-> "Register", raw |-> <<"X","1">>, imm |-> U64(0)],
           [type |-> "Label", raw |-> <<"l","o","o","p">>, imm |-> U64(0)]>>],
     [text |-> <<"F","O","O"," ","[","#","1","]",","," ","#","1","]">>,
      inst |-> TRUE, mn |-> <<"F","O","O">>,
      ops |-> <<[type |-> "Memory", raw |-> <<"[","#","1","]">>, imm |-> U64(0)],
           [type |-> "Immediate", raw |-> <<"#","1","]">>, imm |-> U64(1)]>>],
     [text |-> <<"F","O","O">>,
      inst |-> TRUE, mn |-> <<"F","O","O">>,
      ops |-> <<>>],
     [text |-> <<"F","O","O"," ","X","0",",">>,
      inst |-> TRUE, mn |-> <<"F","O","O">>,
      ops |-> <<[type |-> "Register", raw |-> <<"X","0">>, imm |-> U64(0)]>>],
     [text |-> <<"F","O","O"," ","X","0",","," ",","," ","#","2">>,
      inst |-> TRUE, mn |-> <<"F","O","O">>,
      ops |-> <<[type |-> "Register", raw |-> <<"X","0">>, imm |-> U64(0)],
           [type |-> "Immediate", raw |-> <<"#","2">>, imm |-> U64(2)]>>],
     [text |-> <<"#"," ","n","o","t","e">>,
      inst |-> TRUE, mn |-> <<"#">>,
      ops |-> <<[type |-> "Label", raw |-> <<"n","o","t","e">>, imm |-> U64(0)]>>],
     [text |-> <<"/"," ","X","1">>,
      inst |-> TRUE, mn |-> <<"/">>,
      ops |-> <<[type |-> "Register", raw |-> <<"X","1">>, imm |-> U64(0)]>>],
     [text |-> <<>>,
      inst |-> FALSE, mn |-> <<>>,
      ops |-> <<>>],
     [text |-> <<" "," "," ">>,
      inst |-> FALSE, mn |-> <<>>,
      ops |-> <<>>],
     [text |-> <<"\t">>,
      inst |-> FALSE, mn |-> <<>>,
      ops |-> <<>>],
     [text |-> <<"/","/">>,
      inst |-> FALSE, mn |-> <<>>,
      ops |-> <<>>],
     [text |-> <<"/","/"," ","A","D","D"," ","X","0",","," ","X","1">>,
      inst |-> FALSE, mn |-> <<>>,
      ops |-> <<>>],
     [text |-> <<" "," ","/","/","M","O","V"," ","X","0",","," ","#","1">>,
      inst |-> FALSE, mn |-> <<>>,
      ops |-> <<>>],
     [text |-> <<";">>,
      inst |-> FALSE, mn |-> <<>>,
      ops |-> <<>>],
     [text |-> <<";"," ","L","D","R"," ","X","0">>,
      inst |-> FALSE, mn |-> <<>>,
      ops |-> <<>>],
     [text |-> <<"\t",";","x",","," ","[","y">>,
      inst |-> FALSE, mn |-> <<>>,
      ops |-> <<>>]}

\* buildFileProgram has just read the line of form f of a file of
\* TokenSources; every line before it is an instruction
JustDecoded(f) ==
    /\ src \in TokenSources
    /\ phase = "build"
    /\ src_line >= 1
    /\ src[src_line] = f.text
    /\ \A k \in 1..(src_line - 1) : src[k] \notin {g.text : g \in TokenForms}

\* The operands made from non-empty tokens
FromTokens(operands) == SelectSeq(operands, LAMBDA o : o.raw # <<>>)

\* C27: the operand list is split on the commas at bracket depth 0 only;
\* each non-empty token is exactly one of Immediate (leading '#', with its
\* value), Memory ('[' ... ']'), Register (SP, XZR, WZR, X or W and digits,
\* in any case) or Label; blank lines and lines starting with '//' or ';'
\* decode to no instruction.
C27_OperandDecoding ==
    \A f \in TokenForms :
        JustDecoded(f) =>
            IF f.inst
            THEN /\ Len(prog.code) = src_line
                 /\ instrIndex = src_line
                 /\ NewestInst.mnem = f.mn
                 /\ FromTokens(NewestInst.operands) = f.ops
            ELSE /\ Len(prog.code) = src_line - 1
                 /\ instrIndex = src_line - 1

\* LDR X0, [SP, #8] read as the second line: two operands, the second the
\* whole bracket
C27_Witness ==
    /\ src \in TokenSources
    /\ phase = "build"
    /\ src_line = 2
    /\ src[2] = <<"L","D","R"," ","X","0",","," ","[","S","P",","," ","#","8","]">>
    /\ Len(prog.code) = 2
    /\ Len(NewestInst.operands) = 2
    /\ NewestInst.operands[2].type = "Memory"

(***************************************************************************)
(* C28                                                                     *)
(***************************************************************************)
\* The addresses of the instructions and the end sentinel
ValidPcs == {U64(4 * i) : i \in 0..Len(prog.code)}

\* The instruction is a branch whose operand is taken as a literal address
LiteralBranch(inst) ==
    /\ upperCopy(inst.mnem) \in {MnB, MnBGT, MnBLE}
    /\ Len(inst.operands) = 1
    /\ inst.operands[1].type = "Label"
    /\ tryParseHexAddrLabelish(inst.operands[1].raw).ok

\* The last call executed a branch, took it, and the target was read from
\* the operand as a literal address
LiteralBranchTaken ==
    /\ Fetched
    /\ LiteralBranch(LastInst)
    /\ LastMnem = MnB \/ LastCondition

\* The last call executed a branch, took it, and the target came from the
\* label map
LabelBranchTaken ==
    /\ Fetched
    /\ Returned
    /\ LastMnem \in {MnB, MnBGT, MnBLE}
    /\ ~LiteralBranch(LastInst)
    /\ LastMnem = MnB \/ LastCondition

\* main is running the program, or has stopped running it
Running ==
    /\ caller = "main"
    /\ phase \notin {"build", "build_error", "empty"}

\* C28: in an execution started at pc = 0 whose taken branches all get
\* their target from the label map, pc is one of 0, 4, .., 4 * n before
\* every call of step, so step never fails with an invalid-PC error; an
\* invalid PC arises only from a literal address operand.
C28_PcStaysValid ==
    /\ Running /\ (\A k \in 1..Len(prog.code) : ~LiteralBranch(prog.code[k].inst))
          => /\ pc \in ValidPcs
             /\ prev.pc \in ValidPcs
             /\ phase # "unknown_pc"
             /\ err # "PC points to unknown address"
    /\ ret # "none" /\ Len(prog.code) > 0 /\ prev.pc \in ValidPcs
            /\ ~LiteralBranchTaken
          => pc \in ValidPcs
    /\ Running /\ pc \notin ValidPcs => LiteralBranchTaken

\* In the run of main a B.LE has just gone to a label placed after the
\* last instruction
C28_Witness ==
    /\ Running
    /\ \A k \in 1..Len(prog.code) : ~LiteralBranch(prog.code[k].inst)
    /\ LabelBranchTaken
    /\ LastMnem = MnBLE
    /\ Len(prog.code) = 5
    /\ pc = U64(20)
    /\ pc = prog.labels[<<"E","N","D">>]

(***************************************************************************)
(* C29                                                                     *)
(***************************************************************************)
\* The operand of the last branch is a name, not an address, and no label
\* of that name is recorded
NamesNoLabel ==
    /\ LastLabelKey \notin DOMAIN prog.labels
    /\ ~IsHexToken(trimCopy(LastOps[1].raw))
    /\ trimCopy(LastOps[1].raw)[1] # "0"

\* C29: a B.GT or B.LE whose condition is false does not resolve its
\* operand: the step succeeds with next PC = pc + 4 even when the operand
\* names no recorded label; the undefined-label error is raised only on
\* the step where the branch is taken.
C29_UntakenBranchIsNotResolved ==
    /\ BcondCase /\ ~LastCondition =>
          /\ Returned
          /\ err = ""
          /\ pc = FallThrough
          /\ regs = writePC(prev.regs, FallThrough)
          /\ stack = prev.stack
    /\ BcondCase /\ LastCondition /\ NamesNoLabel =>
          /\ ret = "throw"
          /\ err = "undefined label"
          /\ pc = prev.pc
          /\ regs = prev.regs
    /\ ret = "throw" /\ err = "undefined label" =>
          /\ Fetched
          /\ LastMnem \in {MnB, MnBGT, MnBLE}
          /\ LastMnem = MnB \/ LastCondition

\* B.LE missing with N = 0, Z = 0, V = 0: greater-than, so the branch is
\* not taken and the step goes on to the next instruction
C29_Witness ==
    /\ BcondCase
    /\ LastMnem = MnBLE
    /\ NamesNoLabel
    /\ prev.regs.psr = [N |-> FALSE, Z |-> FALSE, C |-> TRUE, V |-> FALSE]
    /\ ret = "true"
    /\ prev.pc = Zero64
    /\ pc = U64(4)

(***************************************************************************)
(* C30                                                                     *)
(***************************************************************************)
\* The program is built and the caller's pc is the end sentinel
AtSentinel ==
    /\ phase \in {"call", "run", "finished"}
    /\ pc = EndSentinel

\* step is called
StepCalled ==
    /\ phase \in {"call", "run"}
    /\ prev' = Snapshot(regs, stack, pc, prev'.last)

\* A step at the end sentinel returns false and changes nothing, and the
\* caller is at the end sentinel again
SentinelAbsorbs ==
    AtSentinel =>
        /\ AtSentinel'
        /\ pc' = pc
        /\ regs' = regs
        /\ stack' = stack
        /\ StepCalled => ret' = "false" /\ err' = ""

\* The last call executed B, or B.GT / B.LE with its condition true, and
\* the operand is the name of a label recorded at the end sentinel
BranchToEndLabel ==
    /\ Fetched
    /\ LastMnem \in {MnB, MnBGT, MnBLE}
    /\ Len(LastOps) = 1
    /\ LastOps[1].type = "Label"
    /\ LastMnem = MnB \/ LastCondition
    /\ LastLabelKey \in DOMAIN prog.labels
    /\ prog.labels[LastLabelKey] = EndSentinel

\* The state a branch to the end leaves: step returned false, pc and the
\* PC register are 4 * n, nothing else changed, and main is finished
HaltedAtEnd ==
    /\ ret = "false"
    /\ pc = EndSentinel
    /\ regs = writePC(prev.regs, EndSentinel)
    /\ stack = prev.stack
    /\ caller = "main" => phase = "finished"

\* A repeated call at the end sentinel returned false and changed nothing
RepeatedAtEnd ==
    AtSentinel /\ ret # "none" /\ prev.pc = EndSentinel =>
        /\ ret = "false"
        /\ regs = prev.regs
        /\ stack = prev.stack
        /\ regs.pc = EndSentinel

\* C30: halting at the end sentinel is absorbing: a step with pc = 4 * n
\* returns false and leaves pc, the PC register, the registers, the flags
\* and the stack as they are, however often it is repeated; a branch to a
\* label placed after the last instruction reaches this state, PC = 4 * n
\* and step returning false, and nothing further is executed.
C30_EndSentinelAbsorbs ==
    /\ RepeatedAtEnd
    /\ BranchToEndLabel => HaltedAtEnd

\* The part of C30 that holds: the end sentinel is absorbing, in every
\* transition made from it, and a branch to a label placed after the last
\* instruction halts there when the name of the label is not read as a hex
\* address.
C30_ExceptHexNames ==
    /\ [][SentinelAbsorbs]_vars
    /\ [](BranchToEndLabel /\ ~LiteralBranch(LastInst) => HaltedAtEnd)
    /\ []RepeatedAtEnd

(***************************************************************************)
(* C31                                                                     *)
(***************************************************************************)
\* The programs with a name defined more than once: the name as the map
\* keys it, and the address of its last definition in source order
DupForms ==
    {[src |-> <<<<"B"," ","d","u","p">>,
       <<"d","u","p",":"," ","N","O","P">>,
       <<"N","O","P">>,
       <<"D","u","p",":"," ","N","O","P">>,
       <<"D","U","P",":">>>>,
      key |-> <<"D","U","P">>, last |-> U64(16)],
     [src |-> <<<<"d","u","p",":"," ","M","O","V"," ","X","0",","," ","#","1">>,
       <<"B"," ","D","U","P">>,
       <<"N","O","P">>,
       <<"D","u","p",":"," ","N","O","P">>>>,
      key |-> <<"D","U","P">>, last |-> U64(12)],
     [src |-> <<<<"B"," ","g","o">>,
       <<"g","o",":"," ","N","O","P">>,
       <<"g","o",":"," ","R","E","T">>,
       <<"B"," ","G","O">>>>,
      key |-> <<"G","O">>, last |-> U64(8)],
     [src |-> <<<<"t","o","p",":"," ","N","O","P">>,
       <<"m","i","d",":"," ","t","o","p",":"," ","N","O","P">>,
       <<"C","M","P"," ","X","0",","," ","X","0">>,
       <<"B",".","L","E"," ","T","o","p">>>>,
      key |-> <<"T","O","P">>, last |-> U64(4)],
     [src |-> <<<<"x",":"," ","y",":"," ","x",":"," ","N","O","P">>,
       <<"C","M","P"," ","X","0",","," ","#","1">>,
       <<"y",":">>,
       <<"B",".","G","T"," ","x">>,
       <<"b",".","l","e"," ","Y">>>>,
      key |-> <<"Y">>, last |-> U64(8)],
     [src |-> <<<<"a","b",":"," ","N","O","P">>,
       <<"A","B",":"," ","N","O","P">>,
       <<"B"," ","a","b">>>>,
      key |-> <<"A","B">>, last |-> U64(4)],
     [src |-> <<<<"t",":"," ","N","O","P">>,
       <<"T",":"," ","N","O","P">>,
       <<"t",":"," ","N","O","P">>,
       <<"B",".","G","T"," ","t">>,
       <<"B",".","L","E"," ","T">>>>,
      key |-> <<"T">>, last |-> U64(8)]}

\* buildFileProgram has read every line of the file of form f
BuiltFrom(f) ==
    /\ src = f.src
    /\ src_line = Len(src)

\* The last call executed B, or B.GT / B.LE with its condition true, and
\* the operand is the name of form f
BranchToName(f) ==
    /\ Fetched
    /\ LastMnem \in {MnB, MnBGT, MnBLE}
    /\ Len(LastOps) = 1
    /\ LastOps[1].type = "Label"
    /\ LastMnem = MnB \/ LastCondition
    /\ LastLabelKey = f.key

\* The build of the file of form f did not fail, and the label map holds
\* the address of the last definition of the name
LastDefinitionRecorded(f) ==
    /\ src = f.src => phase # "build_error"
    /\ BuiltFrom(f) =>
          /\ f.key \in DOMAIN prog.labels
          /\ prog.labels[f.key] = f.last

\* The branch went to the last definition of the name
WentToLastDefinition(f) ==
    /\ Returned
    /\ pc = f.last
    /\ regs.pc = f.last

\* C31: when a label name, compared without regard to letter case, is
\* defined more than once, build does not fail and the label map holds the
\* address of the last definition in source order; every branch to the
\* name, also one that stands before the redefinition, goes to that
\* address.
C31_LastDefinitionWins ==
    \A f \in DupForms :
        /\ LastDefinitionRecorded(f)
        /\ BuiltFrom(f) /\ BranchToName(f) => WentToLastDefinition(f)

\* The part of C31 that holds: the build and the label map as stated, and
\* the branches to a name that is not read as a hex address.
C31_ExceptHexNames ==
    \A f \in DupForms :
        /\ LastDefinitionRecorded(f)
        /\ BuiltFrom(f) /\ BranchToName(f)
                /\ ~IsHexToken(trimCopy(LastOps[1].raw)) =>
              WentToLastDefinition(f)
====
